---- MODULE Spec2Model ----
(***************************************************************************)
(* A model of coinbase-samples/prime-trading-fees-go:                      *)
(*   - BaseWebSocketClient (internal/websocket/client.go): Start, Stop and *)
(*     the run / connect / subscribe / readMessages loop;                  *)
(*   - MarketDataClient and OrderBook (internal/websocket/marketdata.go):  *)
(*     snapshot and delta events merged into a sorted two-sided book;      *)
(*   - DbOrderHandler.calculateFeeSettlement (package orders).             *)
(***************************************************************************)
EXTENDS Integers, Sequences, FiniteSets, TLC

(***************************************************************************)
(* Bounds of the model.                                                    *)
(***************************************************************************)
\* Start() calls, each of which spawns one run goroutine.
MaxStarts == 2
\* Connections the dialer can open before every further dial fails.
MaxConns == 2
\* Stop() calls.
MaxStops == 2

Loops == 1..MaxStarts
Conns == 1..MaxConns

(***************************************************************************)
(* State.                                                                  *)
(***************************************************************************)
VARIABLES
    \* BaseWebSocketClient fields
    reconnect,   \* c.reconnect
    cancelled,   \* c.ctx is done (c.cancel() was called)
    conn,        \* c.conn: 0 is nil, else the connection's id
    \* the transport, as the client sees it
    connState,   \* per connection: "none", "open", "failed" (transport error), "closed" (Close called)
    subs,        \* per connection: subscription requests written on it
    \* the goroutines spawned by Start(): position and locals
    pc,          \* per run goroutine: position in run()
    rconn,       \* per run goroutine: the connection its ReadMessage call is on
    frame,       \* per run goroutine: the frame it is handling
    failed,      \* per run goroutine: a connect/subscribe/read failure awaits its retry
    result,      \* per run goroutine: what handleMessage returned for its last frame
    \* the caller of Stop()
    stopPc,      \* position in Stop(): "idle", "s1", "s2", "returned"
    stops,       \* Stop() calls begun
    \* the process
    crashed,     \* an unrecovered panic terminated the process
    \* OrderBookStore
    books,       \* product -> published book, or NoBook
    lastEvent,   \* the market-data event handleL2Event has just applied, and whether a
                 \* snapshot was applied so far
    \* settlement
    settle,      \* the inputs and result of the last calculateFeeSettlement call
    \* the subscription protocol
    now,         \* time.Now().Unix()
    subMsg,      \* per connection: the last subscription request written on it
    \* the stream of one connection
    delivered,   \* per connection: the frames ReadMessage has returned, oldest first
    \* DbOrderHandler
    orderDb,     \* OrdersDb and MetadataStore
    lastUpdate,  \* the order-update frame HandleOrderUpdate has just processed
    \* order preparation and price adjustment
    call,        \* the arguments and the result of the last call of a function
    \* the order command
    place,       \* how far the order command has come with its order
    \* goroutines inside handleL2Event
    writers,     \* the event each goroutine applies and the snapshot it took
    \* the book without a depth cap
    uncapped     \* the levels of every side after the events applied so far

clientVars == <<reconnect, cancelled, conn, connState, subs, pc, rconn, frame, failed, result, stopPc, stops>>
bookVars == <<books, lastEvent>>
streamVars == <<now, subMsg, delivered>>
orderVars == <<orderDb, lastUpdate>>
vars == <<reconnect, cancelled, conn, connState, subs, pc, rconn, frame, failed, result, stopPc, stops,
          crashed, books, lastEvent, settle, now, subMsg, delivered, orderDb, lastUpdate, call, place,
          writers, uncapped>>

\* No function has been called.
NoCall == [fn |-> "none"]

\* The order command has not been run.
NoPlace == [pc |-> "idle"]

\* No event was applied: no level on either side.
NoLevels == [bid |-> <<>>, ask |-> <<>>]

\* No goroutine is inside handleL2Event and no snapshot event was applied.
NoWriters == [base |-> [type |-> "none"], w |-> [l \in Loops |-> [pc |-> "idle"]]]

NoFrame == [kind |-> "none"]
NoBook == [exists |-> FALSE]
NoEvent == [phase |-> "none", synced |-> FALSE]
NoSettle == [called |-> FALSE]
NoSub == [sent |-> FALSE]
NoOrder == [exists |-> FALSE]
NoUpdate == [phase |-> "none"]

Products == {"BTC-USD"}

\* NewBaseWebSocketClient: a live context, reconnect enabled, no connection.
InitClient ==
    /\ reconnect = TRUE
    /\ cancelled = FALSE
    /\ conn = 0
    /\ connState = [c \in Conns |-> "none"]
    /\ subs = [c \in Conns |-> 0]
    /\ pc = [l \in Loops |-> "none"]
    /\ rconn = [l \in Loops |-> 0]
    /\ frame = [l \in Loops |-> NoFrame]
    /\ failed = [l \in Loops |-> FALSE]
    /\ result = [l \in Loops |-> "none"]
    /\ stopPc = "idle"
    /\ stops = 0

\* NewOrderBookStore: no book for any product.
InitBooks ==
    /\ books = [p \in Products |-> NoBook]
    /\ lastEvent = NoEvent

\* No subscription written, no frame read, the clock at its origin.
InitStream ==
    /\ now = 0
    /\ subMsg = [c \in Conns |-> NoSub]
    /\ delivered = [c \in Conns |-> <<>>]

\* order_id values of order updates: none, shorter than 8 characters, longer.
OrderIdMissing == <<>>
OrderIdShort == <<"o", "r", "d", "1">>
OrderIdLong == <<"7", "f", "3", "a", "9", "c", "2", "1", "-", "4", "b">>
OrderIds == {OrderIdMissing, OrderIdShort, OrderIdLong}

\* An empty OrdersDb and an empty MetadataStore.
InitOrders ==
    /\ orderDb = [orders |-> [id \in OrderIds \ {OrderIdMissing} |-> NoOrder],
                  events |-> {},
                  metadata |-> {}]
    /\ lastUpdate = NoUpdate

(***************************************************************************)
(* BaseWebSocketClient.                                                    *)
(***************************************************************************)
\* Start(): go c.run(), with no check of an earlier Start.
Start(l) ==
    /\ ~crashed
    /\ pc[l] = "none"
    /\ \A k \in Loops : k < l => pc[k] # "none"
    /\ pc' = [pc EXCEPT ![l] = "loop"]
    /\ UNCHANGED <<reconnect, cancelled, conn, connState, subs, rconn, frame, failed, result, stopPc, stops>>
    /\ UNCHANGED <<crashed, books, lastEvent, settle, place, writers, uncapped, call, now, subMsg, delivered, orderDb, lastUpdate>>

\* Stop(), first statement: c.reconnect = false.
StopDisable ==
    /\ ~crashed
    /\ stopPc \in {"idle", "returned"}
    /\ stops < MaxStops
    /\ stops' = stops + 1
    /\ reconnect' = FALSE
    /\ stopPc' = "s1"
    /\ UNCHANGED <<cancelled, conn, connState, subs, pc, rconn, frame, failed, result>>
    /\ UNCHANGED <<crashed, books, lastEvent, settle, place, writers, uncapped, call, now, subMsg, delivered, orderDb, lastUpdate>>

\* Stop(), second statement: c.cancel().
StopCancel ==
    /\ ~crashed
    /\ stopPc = "s1"
    /\ cancelled' = TRUE
    /\ stopPc' = "s2"
    /\ UNCHANGED <<reconnect, conn, connState, subs, pc, rconn, frame, failed, stops, result>>
    /\ UNCHANGED <<crashed, books, lastEvent, settle, place, writers, uncapped, call, now, subMsg, delivered, orderDb, lastUpdate>>

\* Close() on a connection: closing nil never happens, closing twice changes nothing.
CloseConn(cs, c) == IF c = 0 THEN cs ELSE [cs EXCEPT ![c] = "closed"]

\* Stop(), third statement: if c.conn != nil { c.conn.Close() }, then return.
StopClose ==
    /\ ~crashed
    /\ stopPc = "s2"
    /\ connState' = CloseConn(connState, conn)
    /\ stopPc' = "returned"
    /\ UNCHANGED <<reconnect, cancelled, conn, subs, pc, rconn, frame, failed, stops, result>>
    /\ UNCHANGED <<crashed, books, lastEvent, settle, place, writers, uncapped, call, now, subMsg, delivered, orderDb, lastUpdate>>

\* A run() that connects without looking at c.reconnect.
LoopUnconditional(l) ==
    /\ ~crashed
    /\ pc[l] = "loop"
    /\ pc' = [pc EXCEPT ![l] = "dial"]
    /\ UNCHANGED <<reconnect, cancelled, conn, connState, subs, rconn, frame, failed, result, stopPc, stops>>
    /\ UNCHANGED <<crashed, books, lastEvent, settle, place, writers, uncapped, call, now, subMsg, delivered, orderDb, lastUpdate>>

\* run(): the loop condition, for c.reconnect.
LoopCheck(l) ==
    /\ ~crashed
    /\ pc[l] = "loop"
    /\ pc' = [pc EXCEPT ![l] = IF reconnect THEN "dial" ELSE "exited"]
    /\ UNCHANGED <<reconnect, cancelled, conn, connState, subs, rconn, frame, failed, result, stopPc, stops>>
    /\ UNCHANGED <<crashed, books, lastEvent, settle, place, writers, uncapped, call, now, subMsg, delivered, orderDb, lastUpdate>>

\* connect(): the dial succeeds and c.conn = conn.
DialOk(l) ==
    /\ ~crashed
    /\ pc[l] = "dial"
    /\ \E c \in Conns :
        /\ connState[c] = "none"
        /\ \A k \in Conns : k < c => connState[k] # "none"
        /\ connState' = [connState EXCEPT ![c] = "open"]
        /\ conn' = c
    /\ pc' = [pc EXCEPT ![l] = "subscribe"]
    /\ failed' = [failed EXCEPT ![l] = FALSE]
    /\ UNCHANGED <<reconnect, cancelled, subs, rconn, frame, result, stopPc, stops>>
    /\ UNCHANGED <<crashed, books, lastEvent, settle, place, writers, uncapped, call, now, subMsg, delivered, orderDb, lastUpdate>>

\* A run() whose failed connect() ends the loop instead of retrying.
ConnectFailedFatal(l) ==
    /\ pc' = [pc EXCEPT ![l] = "exited"]
    /\ failed' = [failed EXCEPT ![l] = TRUE]

\* run(), after a failed connect(): log, sleep the reconnect delay, continue.
ConnectFailed(l) ==
    /\ pc' = [pc EXCEPT ![l] = "sleep"]
    /\ failed' = [failed EXCEPT ![l] = TRUE]

\* connect(): the dial fails.
DialFail(l) ==
    /\ ~crashed
    /\ pc[l] = "dial"
    /\ ConnectFailed(l)
    /\ UNCHANGED <<reconnect, cancelled, conn, connState, subs, rconn, frame, result, stopPc, stops>>
    /\ UNCHANGED <<crashed, books, lastEvent, settle, place, writers, uncapped, call, now, subMsg, delivered, orderDb, lastUpdate>>

\* subscribe(): strconv.FormatInt(time.Now().Unix(), 10).
Timestamp == now

\* handler.BuildSignatureMessage: channel + accessKey + serviceAccountId +
\* timestamp + product ids.
BuildSignatureMessage(timestamp) ==
    <<"channel", "accessKey", "serviceAccountId", timestamp, "products">>

\* sign(): the HMAC-SHA256 of the message under the signing key.
sign(message) == [hmac |-> "SigningKey", of |-> message]

\* handler.BuildSubscriptionMessage.
BuildSubscriptionMessage(timestamp, signature) ==
    [sent |-> TRUE, type |-> "subscribe", timestamp |-> timestamp, signature |-> signature]

\* subscribe(): WriteJSON on c.conn succeeds.
SubscribeOk(l) ==
    /\ ~crashed
    /\ pc[l] = "subscribe"
    /\ conn # 0
    /\ connState[conn] = "open"
    /\ subs' = [subs EXCEPT ![conn] = @ + 1]
    /\ LET timestamp == Timestamp
           signature == sign(BuildSignatureMessage(timestamp))
       IN subMsg' = [subMsg EXCEPT ![conn] = BuildSubscriptionMessage(timestamp, signature)]
    /\ pc' = [pc EXCEPT ![l] = "readctx"]
    /\ UNCHANGED <<reconnect, cancelled, conn, connState, rconn, frame, failed, result, stopPc, stops>>
    /\ UNCHANGED <<crashed, books, lastEvent, settle, place, writers, uncapped, call, now, delivered, orderDb, lastUpdate>>

\* subscribe(): WriteJSON on c.conn fails (always so on a closed or failed connection).
SubscribeFail(l) ==
    /\ ~crashed
    /\ pc[l] = "subscribe"
    /\ pc' = [pc EXCEPT ![l] = "subfail"]
    /\ failed' = [failed EXCEPT ![l] = TRUE]
    /\ UNCHANGED <<reconnect, cancelled, conn, connState, subs, rconn, frame, result, stopPc, stops>>
    /\ UNCHANGED <<crashed, books, lastEvent, settle, place, writers, uncapped, call, now, subMsg, delivered, orderDb, lastUpdate>>

\* run(), after a failed subscribe(): c.conn.Close(), then sleep and continue.
SubscribeFailClose(l) ==
    /\ ~crashed
    /\ pc[l] = "subfail"
    /\ connState' = CloseConn(connState, conn)
    /\ pc' = [pc EXCEPT ![l] = "sleep"]
    /\ UNCHANGED <<reconnect, cancelled, conn, subs, rconn, frame, failed, result, stopPc, stops>>
    /\ UNCHANGED <<crashed, books, lastEvent, settle, place, writers, uncapped, call, now, subMsg, delivered, orderDb, lastUpdate>>

\* readMessages(): the select on c.ctx.Done() at the top of the loop.
ReadCtx(l) ==
    /\ ~crashed
    /\ pc[l] = "readctx"
    /\ pc' = [pc EXCEPT ![l] = IF cancelled THEN "afterread" ELSE "read"]
    /\ rconn' = [rconn EXCEPT ![l] = IF cancelled THEN @ ELSE conn]
    /\ UNCHANGED <<reconnect, cancelled, conn, connState, subs, frame, failed, result, stopPc, stops>>
    /\ UNCHANGED <<crashed, books, lastEvent, settle, place, writers, uncapped, call, now, subMsg, delivered, orderDb, lastUpdate>>

\* The transport of an open connection fails.
TransportFail(c) ==
    /\ ~crashed
    /\ connState[c] = "open"
    /\ connState' = [connState EXCEPT ![c] = "failed"]
    /\ UNCHANGED <<reconnect, cancelled, conn, subs, pc, rconn, frame, failed, result, stopPc, stops>>
    /\ UNCHANGED <<crashed, books, lastEvent, settle, place, writers, uncapped, call, now, subMsg, delivered, orderDb, lastUpdate>>

\* readMessages(): ReadMessage returns an error (the connection failed or was closed).
ReadError(l) ==
    /\ ~crashed
    /\ pc[l] = "read"
    /\ connState[rconn[l]] # "open"
    /\ pc' = [pc EXCEPT ![l] = "readerr"]
    /\ UNCHANGED <<reconnect, cancelled, conn, connState, subs, rconn, frame, failed, result, stopPc, stops>>
    /\ UNCHANGED <<crashed, books, lastEvent, settle, place, writers, uncapped, call, now, subMsg, delivered, orderDb, lastUpdate>>

\* readMessages(): the select after a read error: silent when cancelled, logged otherwise.
ReadErrorReturn(l) ==
    /\ ~crashed
    /\ pc[l] = "readerr"
    /\ pc' = [pc EXCEPT ![l] = "afterread"]
    /\ failed' = [failed EXCEPT ![l] = ~cancelled]
    /\ UNCHANGED <<reconnect, cancelled, conn, connState, subs, rconn, frame, result, stopPc, stops>>
    /\ UNCHANGED <<crashed, books, lastEvent, settle, place, writers, uncapped, call, now, subMsg, delivered, orderDb, lastUpdate>>

\* run(), after readMessages(): if c.reconnect, sleep the reconnect delay.
AfterRead(l) ==
    /\ ~crashed
    /\ pc[l] = "afterread"
    /\ pc' = [pc EXCEPT ![l] = IF reconnect THEN "sleep" ELSE "loop"]
    /\ UNCHANGED <<reconnect, cancelled, conn, connState, subs, rconn, frame, failed, result, stopPc, stops>>
    /\ UNCHANGED <<crashed, books, lastEvent, settle, place, writers, uncapped, call, now, subMsg, delivered, orderDb, lastUpdate>>

\* run(): time.Sleep(c.config.ReconnectDelay) returns.
SleepDone(l) ==
    /\ ~crashed
    /\ pc[l] = "sleep"
    /\ pc' = [pc EXCEPT ![l] = "loop"]
    /\ UNCHANGED <<reconnect, cancelled, conn, connState, subs, rconn, frame, failed, result, stopPc, stops>>
    /\ UNCHANGED <<crashed, books, lastEvent, settle, place, writers, uncapped, call, now, subMsg, delivered, orderDb, lastUpdate>>

\* readMessages(): c.conn.ReadMessage() returns frame f to goroutine l.
ReadMessage(l, f) ==
    /\ ~crashed
    /\ pc[l] = "read"
    /\ connState[rconn[l]] = "open"
    /\ frame' = [frame EXCEPT ![l] = f]
    /\ pc' = [pc EXCEPT ![l] = "handle"]
    /\ UNCHANGED <<reconnect, cancelled, conn, connState, subs, rconn, failed, result, stopPc, stops>>
    /\ UNCHANGED <<crashed, books, lastEvent, settle, place, writers, uncapped, call, now, subMsg, orderDb, lastUpdate>>

\* readMessages(): ReadMessage returns a frame.
FrameArrives(l, f) ==
    /\ ReadMessage(l, f)
    /\ UNCHANGED delivered

(***************************************************************************)
(* Decimals and strings of the market-data handler.  Prices and sizes are  *)
(* integers; a Go string is the sequence of its characters.                *)
(***************************************************************************)
Digits == <<"0", "1", "2", "3", "4", "5", "6", "7", "8", "9">>

\* decimal.Decimal.String() of a non-negative integer below 100.
DecString(d) ==
    IF d < 10 THEN <<Digits[d + 1]>>
    ELSE <<Digits[(d \div 10) + 1], Digits[(d % 10) + 1]>>

SideBid == <<"b", "i", "d">>
SideAsk == <<"a", "s", "k">>
SideOffer == <<"o", "f", "f", "e", "r">>
PrefixOff == <<"o", "f", "f">>
\* update["side"].(string) of an entry whose side is missing, not a string, or "".
SideEmpty == <<>>

\* A JSON field of an update entry: a string or number holding a decimal, or
\* a field that is missing or of another type.
Dec(v) == [k |-> "dec", v |-> v]
FieldMissing == [k |-> "missing", v |-> 0]
FieldInvalid == [k |-> "invalid", v |-> 0]

\* parseDecimalField: the decimal, or an error for a missing or wrongly typed field.
parseDecimalField(update, key) ==
    IF update[key].k = "dec" THEN [err |-> FALSE, val |-> update[key].v]
    ELSE [err |-> TRUE, val |-> 0]

\* A map assignment that keeps the value a key already has.
MapPutIfAbsent(m, key, val) ==
    [k \in DOMAIN m \cup {key} |-> IF k \in DOMAIN m THEN m[k] ELSE val]

\* levels[key] = priceLevel on a Go map.
MapPut(m, key, val) ==
    [k \in DOMAIN m \cup {key} |-> IF k = key THEN val ELSE m[k]]

\* delete(m, key) on a Go map.
MapDelete(m, key) == [k \in DOMAIN m \ {key} |-> m[k]]

EmptyMap == [k \in {} |-> 0]

\* parseUpdates, the loop body for one entry: skip it when px or qty does not
\* parse, else levels[side + ":" + price.String()] = {price, size}.
parseUpdate(levels, update) ==
    LET price == parseDecimalField(update, "px")
        size == parseDecimalField(update, "qty")
    IN IF price.err \/ size.err THEN levels
       ELSE MapPut(levels, update.side \o <<":">> \o DecString(price.val),
                   [Price |-> price.val, Size |-> size.val])

\* parseUpdates: the entries in order, later entries overwriting equal keys.
RECURSIVE parseUpdatesFrom(_, _)
parseUpdatesFrom(levels, updates) ==
    IF updates = <<>> THEN levels
    ELSE parseUpdatesFrom(parseUpdate(levels, Head(updates)), Tail(updates))

parseUpdates(event) == parseUpdatesFrom(EmptyMap, event.updates)

\* key[:3]: a Go slice expression, which panics when the key is shorter.
KeyTooShort(key) == Len(key) < 3
Prefix3(key) == SubSeq(key, 1, 3)

(***************************************************************************)
(* OrderBook and the order-book half of MarketDataClient.                  *)
(***************************************************************************)
\* c.config.MaxLevels
MaxLevels == 2

\* atomic.Value that was never stored to.
NoLevel == [Price |-> -1, Size |-> -1]

\* NewOrderBook: both sides empty, nothing stored in the best-bid/ask values.
NewOrderBook ==
    [exists |-> TRUE, Bids |-> <<>>, Asks |-> <<>>, bestBid |-> NoLevel, bestAsk |-> NoLevel]

\* OrderBookStore.GetOrCreate
GetOrCreate(bks, product) ==
    IF bks[product].exists THEN bks ELSE [bks EXCEPT ![product] = NewOrderBook]

\* OrderBook.Update: replace both sides, then store the best bid and the best
\* ask; atomic.Value.Store(nil), reached for an empty side, panics.
Update(book, bids, asks) ==
    LET b1 == [book EXCEPT !.Bids = bids, !.Asks = asks]
    IN IF bids = <<>> THEN [panic |-> TRUE, book |-> b1]
       ELSE IF asks = <<>>
            THEN [panic |-> TRUE, book |-> [b1 EXCEPT !.bestBid = bids[1]]]
            ELSE [panic |-> FALSE,
                  book |-> [b1 EXCEPT !.bestBid = bids[1], !.bestAsk = asks[1]]]

\* OrderBook.GetBestBid / GetBestAsk: the stored level, or ok = FALSE when the
\* value holds nothing.
GetBestBid(book) ==
    IF book.bestBid = NoLevel THEN [ok |-> FALSE] ELSE [ok |-> TRUE, level |-> book.bestBid]
GetBestAsk(book) ==
    IF book.bestAsk = NoLevel THEN [ok |-> FALSE] ELSE [ok |-> TRUE, level |-> book.bestAsk]

\* A limitLevels that returns every level.
limitLevelsUncapped(levels) == levels

\* limitLevels
limitLevels(levels) ==
    IF MaxLevels > 0 /\ Len(levels) > MaxLevels THEN SubSeq(levels, 1, MaxLevels)
    ELSE levels

\* The less functions of sortBids and sortAsks.
BidLess(a, b) == a.Price > b.Price
AskLess(a, b) == a.Price < b.Price

\* sort.Slice over the values of map m at keys K, by the less function of
\* sortBids (bids = TRUE) or sortAsks: every ordering of the values in which
\* no element is less than one before it (the sort is not stable and the map
\* is ranged over in any order).
SliceLess(bids, a, b) == IF bids THEN BidLess(a, b) ELSE AskLess(a, b)

RECURSIVE SortSlice(_, _, _)
SortSlice(m, K, bids) ==
    IF K = {} THEN {<<>>}
    ELSE UNION {{<<m[k]>> \o rest : rest \in SortSlice(m, K \ {k}, bids)} :
                k \in {x \in K : \A y \in K : ~SliceLess(bids, m[y], m[x])}}

\* A sortBids that sorts lowest price first.
sortBidsAscending(m, K) == SortSlice(m, K, FALSE)

sortBids(m, K) == SortSlice(m, K, TRUE)
sortAsks(m, K) == SortSlice(m, K, FALSE)

\* buildOrderBook: the keys appended to each side (zero sizes skipped first).
BidKeys(levels) ==
    {k \in DOMAIN levels : levels[k].Size # 0 /\ Prefix3(k) = SideBid}
AskKeys(levels) ==
    {k \in DOMAIN levels : levels[k].Size # 0 /\ (Prefix3(k) = SideAsk \/ Prefix3(k) = PrefixOff)}

\* buildOrderBook: the possible (bids, asks), or a panic at key[:3].
buildOrderBook(levels) ==
    IF \E k \in DOMAIN levels : levels[k].Size # 0 /\ KeyTooShort(k)
    THEN {[panic |-> TRUE, bids |-> <<>>, asks |-> <<>>]}
    ELSE {[panic |-> FALSE, bids |-> limitLevels(b), asks |-> limitLevels(a)] :
            b \in sortBids(levels, BidKeys(levels)), a \in sortAsks(levels, AskKeys(levels))}

\* handleSnapshot: the possible outcomes [panic, book].
handleSnapshot(book, levels) ==
    {IF r.panic THEN [panic |-> TRUE, book |-> book] ELSE Update(book, r.bids, r.asks) :
        r \in buildOrderBook(levels)}

\* handleUpdate: bidMap / askMap built from the book's current sides.
SideMap(side) ==
    [k \in {DecString(side[i].Price) : i \in 1..Len(side)} |->
        side[CHOOSE i \in 1..Len(side) :
            /\ DecString(side[i].Price) = k
            /\ \A j \in (i + 1)..Len(side) : DecString(side[j].Price) # k]]

\* handleUpdate, the loop body for one key of newLevels.
ApplyLevel(maps, key, level) ==
    LET priceKey == DecString(level.Price)
    IN IF Prefix3(key) = SideBid
       THEN [maps EXCEPT !.bid = IF level.Size = 0 THEN MapDelete(@, priceKey)
                                 ELSE MapPut(@, priceKey, level)]
       ELSE IF Prefix3(key) = SideAsk
            THEN [maps EXCEPT !.ask = IF level.Size = 0 THEN MapDelete(@, priceKey)
                                      ELSE MapPut(@, priceKey, level)]
            ELSE maps

\* handleUpdate, the loop over newLevels in every order a Go map can range in.
RECURSIVE ApplyLevels(_, _, _)
ApplyLevels(maps, newLevels, K) ==
    IF K = {} THEN {maps}
    ELSE UNION {ApplyLevels(ApplyLevel(maps, k, newLevels[k]), newLevels, K \ {k}) : k \in K}

\* handleUpdate after snapshot := book.Snapshot(): the levels are merged into
\* the sides of the snapshot and published with book.Update.  The possible
\* outcomes [panic, book].
handleUpdateFrom(snapshot, book, newLevels) ==
    IF \E k \in DOMAIN newLevels : KeyTooShort(k)
    THEN {[panic |-> TRUE, book |-> book]}
    ELSE UNION {
            {Update(book, limitLevels(b), limitLevels(a)) :
                b \in sortBids(maps.bid, DOMAIN maps.bid),
                a \in sortAsks(maps.ask, DOMAIN maps.ask)} :
            maps \in ApplyLevels([bid |-> SideMap(snapshot.Bids),
                                  ask |-> SideMap(snapshot.Asks)],
                                 newLevels, DOMAIN newLevels)}

\* handleUpdate when no other goroutine writes the book between its
\* Snapshot() and its Update(): the possible outcomes [panic, book].
handleUpdate(book, newLevels) == handleUpdateFrom(book, book, newLevels)

\* A JSON value of the wrong type, or a missing field.
NotAString == "<not a string>"

\* parseEventMetadata: an error unless type is a string and product_id a
\* non-empty string.
parseEventMetadata(event) ==
    IF event.type = NotAString THEN [err |-> TRUE]
    ELSE IF event.product_id = NotAString \/ event.product_id = "" THEN [err |-> TRUE]
    ELSE [err |-> FALSE]

\* handleL2Event: the possible outcomes [err, panic, books] of one event on
\* the store bks.  An event that fails to parse changes nothing; every type
\* other than "snapshot" is applied as an update.
handleL2Event(bks, event) ==
    IF parseEventMetadata(event).err \/ ~event.isArray
    THEN {[err |-> TRUE, panic |-> FALSE, books |-> bks]}
    ELSE LET levels == parseUpdates(event)
             created == GetOrCreate(bks, event.product_id)
             book == created[event.product_id]
             outs == IF event.type = "snapshot" THEN handleSnapshot(book, levels)
                     ELSE handleUpdate(book, levels)
         IN {[err |-> FALSE, panic |-> o.panic,
              books |-> [created EXCEPT ![event.product_id] = o.book]] : o \in outs}

\* MarketDataClient.HandleMessage, the loop over the events of one message: a
\* failed event is logged and the next one handled; a panic ends everything.
RECURSIVE HandleEvents(_, _)
HandleEvents(st, events) ==
    IF events = <<>> \/ st.panic THEN {st}
    ELSE UNION {HandleEvents([o EXCEPT !.err = FALSE], Tail(events)) :
                  o \in handleL2Event(st.books, Head(events))}

\* MarketDataClient.HandleMessage: an error when events is missing or empty,
\* else nil once every event was handled.
HandleMessage(bks, message) ==
    IF ~message.isArray \/ message.events = <<>>
    THEN {[err |-> TRUE, panic |-> FALSE, books |-> bks]}
    ELSE HandleEvents([err |-> FALSE, panic |-> FALSE, books |-> bks], message.events)

(***************************************************************************)
(* Market-data events applied to the store, as handleL2Event applies them.  *)
(***************************************************************************)
\* Entries of one event's updates array.
MaxUpdates == 2
\* Largest size of a level (0 removes the level).
MaxSize == 1

Prices == {5, 10, 11}
Sizes == 0..MaxSize
BookSides == {SideBid, SideAsk, SideOffer}

Entries == [side : BookSides, px : {Dec(p) : p \in Prices}, qty : {Dec(q) : q \in Sizes}]
UpdateSeqs == UNION {[1..n -> Entries] : n \in 0..MaxUpdates}
\* isArray: event["updates"] is a JSON array.
Events == [type : {"snapshot", "update"}, product_id : Products, isArray : {TRUE},
           updates : UpdateSeqs]

\* handleL2Event on one event.
L2Event(event) ==
    /\ ~crashed
    /\ lastEvent.phase = "none"
    /\ \E o \in handleL2Event(books, event) :
        /\ books' = o.books
        /\ crashed' = o.panic
    /\ lastEvent' = [phase |-> "applied", event |-> event,
                     synced |-> lastEvent.synced \/ event.type = "snapshot"]
    /\ UNCHANGED <<reconnect, cancelled, conn, connState, subs, pc, rconn, frame, failed,
                   result, stopPc, stops, settle, place, writers, uncapped, call, now, subMsg, delivered, orderDb, lastUpdate>>

\* handleL2Event has returned.
EventDone ==
    /\ ~crashed
    /\ lastEvent.phase = "applied"
    /\ lastEvent' = [phase |-> "none", synced |-> lastEvent.synced]
    /\ UNCHANGED <<reconnect, cancelled, conn, connState, subs, pc, rconn, frame, failed,
                   result, stopPc, stops, crashed, books, settle, place, writers, uncapped, call, now, subMsg, delivered,
                   orderDb, lastUpdate>>

NextBook ==
    \/ \E event \in Events : L2Event(event)
    \/ EventDone

Init ==
    /\ InitClient /\ InitBooks /\ InitStream /\ InitOrders
    /\ crashed = FALSE /\ settle = NoSettle /\ call = NoCall /\ place = NoPlace /\ writers = NoWriters /\ uncapped = NoLevels

SpecBook == Init /\ [][NextBook]_vars

(***************************************************************************)
(* The published book next to the book of the same events with no depth    *)
(* cap: handleL2Event on the store, and the same merge with limitLevels     *)
(* left out on the levels kept in uncapped.                                 *)
(***************************************************************************)
\* Events with entries on the bid and the ask side.
DepthEntries == [side : {SideBid, SideAsk}, px : {Dec(p) : p \in Prices},
                 qty : {Dec(q) : q \in Sizes}]
DepthEvents == [type : {"snapshot", "update"}, product_id : Products, isArray : {TRUE},
                updates : UNION {[1..n -> DepthEntries] : n \in 1..MaxUpdates}]

\* buildOrderBook and handleUpdate without limitLevels: a snapshot replaces
\* both sides by its non-zero levels, an update is merged into the sides kept
\* so far.
UncappedEvent(kept, event, levels) ==
    IF event.type = "snapshot"
    THEN {[bid |-> SideMap(b), ask |-> SideMap(a)] :
            b \in sortBids(levels, BidKeys(levels)), a \in sortAsks(levels, AskKeys(levels))}
    ELSE ApplyLevels(kept, levels, DOMAIN levels)

\* handleL2Event on one event, and the same event on the uncapped levels.
DepthEvent(event) ==
    /\ ~crashed
    /\ \E o \in handleL2Event(books, event) :
        /\ books' = o.books
        /\ crashed' = o.panic
    /\ uncapped' \in UncappedEvent(uncapped, event, parseUpdates(event))
    /\ UNCHANGED <<clientVars, lastEvent, settle, place, writers, call, streamVars,
                   orderVars>>

NextDepth == \E event \in DepthEvents : DepthEvent(event)

SpecDepth == Init /\ [][NextDepth]_vars


\* Events whose sizes may be below zero: decimal.NewFromString and
\* decimal.NewFromFloat accept a negative qty.
SignedSizes == Sizes \cup {0 - q : q \in 1..MaxSize}
SignedEntries ==
    [side : {SideBid, SideAsk}, px : {Dec(5), Dec(10)}, qty : {Dec(q) : q \in SignedSizes}]
SignedEvents ==
    [type : {"snapshot", "update"}, product_id : Products, isArray : {TRUE},
     updates : UNION {[1..n -> SignedEntries] : n \in 0..MaxUpdates}]

NextSigned ==
    \/ \E event \in SignedEvents : L2Event(event)
    \/ EventDone

SpecSigned == Init /\ [][NextSigned]_vars

(***************************************************************************)
(* Frames, and BaseWebSocketClient.handleMessage.                          *)
(***************************************************************************)
\* GetChannelName() of the market-data handler.
ChannelName == "l2_data"

\* Bytes that json.Unmarshal rejects.
NonJson == [kind |-> "nonjson", type |-> "", channel |-> "", isArray |-> FALSE, events |-> <<>>]
\* A JSON object: its root "type", its "channel", and its "events".
Json(type, channel, isArray, events) ==
    [kind |-> "json", type |-> type, channel |-> channel, isArray |-> isArray,
     events |-> events]

\* handleMessage up to the delegation: unmarshal failure and "error" frames
\* are errors, "subscriptions" frames and frames of another channel are nil,
\* the rest goes to handler.HandleMessage.
handleMessage(f) ==
    IF f.kind = "nonjson" THEN "err"
    ELSE IF f.type = "subscriptions" THEN "nil"
    ELSE IF f.type = "error" THEN "err"
    ELSE IF f.channel # ChannelName THEN "nil"
    ELSE "delegate"

\* Frames as BaseWebSocketClient tells them apart.
ClientFrames ==
    {NonJson, Json("subscriptions", "", FALSE, <<>>), Json("error", "", FALSE, <<>>),
     Json("", "heartbeats", FALSE, <<>>), Json("", ChannelName, FALSE, <<>>)}

\* A readMessages() that returns when handleMessage returned an error, as it
\* does for a read error.
FrameHandledOrReturn(l, r) ==
    /\ result' = [result EXCEPT ![l] = r]
    /\ frame' = [frame EXCEPT ![l] = NoFrame]
    /\ pc' = [pc EXCEPT ![l] = IF r = "err" THEN "afterread" ELSE "readctx"]

\* readMessages(), after handleMessage returned r: log an error, read on.
FrameHandled(l, r) ==
    /\ result' = [result EXCEPT ![l] = r]
    /\ frame' = [frame EXCEPT ![l] = NoFrame]
    /\ pc' = [pc EXCEPT ![l] = "readctx"]

\* readMessages(): handleMessage on the frame read, the handler being any
\* ChannelHandler, whose HandleMessage returns nil or an error.
HandleFrame(l) ==
    /\ ~crashed
    /\ pc[l] = "handle"
    /\ \E r \in {"nil", "err"} :
        /\ handleMessage(frame[l]) \in {r, "delegate"}
        /\ FrameHandled(l, r)
    /\ UNCHANGED <<reconnect, cancelled, conn, connState, subs, rconn, failed, stopPc, stops>>
    /\ UNCHANGED <<crashed, books, lastEvent, settle, place, writers, uncapped, call, now, subMsg, delivered, orderDb, lastUpdate>>

\* readMessages(): handleMessage on the frame read, the handler being the
\* MarketDataClient.  A panic in the handler is not recovered anywhere and
\* terminates the process.
HandleL2(l) ==
    /\ ~crashed
    /\ pc[l] = "handle"
    /\ IF handleMessage(frame[l]) = "delegate"
       THEN \E o \in HandleMessage(books, frame[l]) :
              /\ books' = o.books
              /\ crashed' = o.panic
              /\ IF o.panic
                 THEN /\ pc' = [pc EXCEPT ![l] = "panicked"]
                      /\ UNCHANGED <<frame, result>>
                 ELSE FrameHandled(l, IF o.err THEN "err" ELSE "nil")
       ELSE /\ FrameHandled(l, handleMessage(frame[l]))
            /\ UNCHANGED <<crashed, books>>
    /\ UNCHANGED <<reconnect, cancelled, conn, connState, subs, rconn, failed, stopPc, stops>>
    /\ UNCHANGED <<lastEvent, settle, place, writers, uncapped, call, now, subMsg, orderDb, lastUpdate>>

HandleFrameL2(l) ==
    /\ HandleL2(l)
    /\ UNCHANGED delivered

(***************************************************************************)
(* The client against any ChannelHandler.                                  *)
(***************************************************************************)
\* A step of run goroutine l that needs nothing from outside the process.
LoopStep(l) ==
    \/ LoopCheck(l)
    \/ DialOk(l)
    \/ DialFail(l)
    \/ SubscribeOk(l)
    \/ SubscribeFail(l)
    \/ SubscribeFailClose(l)
    \/ ReadCtx(l)
    \/ ReadError(l)
    \/ ReadErrorReturn(l)
    \/ AfterRead(l)
    \/ SleepDone(l)

\* A step of the caller inside Stop().
StopStep == StopCancel \/ StopClose

ClientStep ==
    \/ \E l \in Loops : Start(l)
    \/ StopDisable
    \/ StopStep
    \/ \E l \in Loops : LoopStep(l)
    \/ \E c \in Conns : TransportFail(c)

Next ==
    \/ ClientStep
    \/ \E l \in Loops : \E f \in ClientFrames : FrameArrives(l, f)
    \/ \E l \in Loops : HandleFrame(l)

Spec == Init /\ [][Next]_vars

\* The scheduler runs every goroutine that can take a step; a dial, a sleep
\* and a handler return; a read on a dead connection returns.
FairSpec ==
    /\ Spec
    /\ \A l \in Loops : WF_vars(LoopStep(l) \/ HandleFrame(l))
    /\ WF_vars(StopStep)

(***************************************************************************)
(* The client left to itself while time passes: no Stop(), connections     *)
(* that fail, frames of the handler's channel.                             *)
(***************************************************************************)
\* Seconds the clock advances.
MaxTime == 2

\* A second passes.
Tick ==
    /\ ~crashed
    /\ now < MaxTime
    /\ now' = now + 1
    /\ UNCHANGED <<clientVars, crashed, books, lastEvent, settle, place, writers, uncapped, call, subMsg, delivered, orderVars>>

NextTimed ==
    \/ \E l \in Loops : Start(l)
    \/ \E l \in Loops : LoopStep(l)
    \/ \E c \in Conns : TransportFail(c)
    \/ \E l \in Loops : FrameArrives(l, Json("", ChannelName, FALSE, <<>>))
    \/ \E l \in Loops : HandleFrame(l)
    \/ Tick

SpecTimed == Init /\ [][NextTimed]_vars

(***************************************************************************)
(* The client on a connection whose server sends subscription              *)
(* confirmations and structured errors.                                    *)
(***************************************************************************)
ServerFrames == {Json("subscriptions", "", FALSE, <<>>), Json("error", "", FALSE, <<>>)}

NextServer ==
    \/ \E l \in Loops : Start(l)
    \/ StopDisable
    \/ StopStep
    \/ \E l \in Loops : LoopStep(l)
    \/ \E c \in Conns : TransportFail(c)
    \/ \E l \in Loops : \E f \in ServerFrames : FrameArrives(l, f)
    \/ \E l \in Loops : HandleFrame(l)

SpecServer == Init /\ [][NextServer]_vars

(***************************************************************************)
(* The client with the MarketDataClient as its handler.                    *)
(***************************************************************************)
Entry(side, px, qty) == [side |-> side, px |-> px, qty |-> qty]
Event(type, updates) ==
    [type |-> type, product_id |-> "BTC-USD", isArray |-> TRUE, updates |-> updates]
L2(events) == Json("", ChannelName, TRUE, events)

\* Frames of the l2_data channel, well-formed and not.
FeedFrames ==
    {NonJson,
     Json("", ChannelName, FALSE, <<>>),
     L2(<<[type |-> "update", product_id |-> "BTC-USD", isArray |-> FALSE, updates |-> <<>>]>>),
     L2(<<[type |-> NotAString, product_id |-> "BTC-USD", isArray |-> TRUE, updates |-> <<>>]>>),
     L2(<<Event("update", <<Entry(SideBid, FieldMissing, Dec(1))>>)>>),
     L2(<<Event("update", <<Entry(SideBid, Dec(5), FieldInvalid)>>)>>),
     L2(<<Event("update", <<Entry(SideEmpty, Dec(10), Dec(1))>>)>>),
     L2(<<Event("update", <<Entry(SideEmpty, Dec(5), Dec(1))>>)>>),
     L2(<<Event("snapshot", <<Entry(SideBid, Dec(5), Dec(1)), Entry(SideAsk, Dec(10), Dec(1))>>)>>),
     L2(<<Event("update", <<Entry(SideBid, Dec(5), Dec(2)), Entry(SideAsk, Dec(11), Dec(1))>>)>>)}

\* The stream command starts its MarketDataClient once and stops it once.
FeedLoop == 1

NextFeed ==
    \/ Start(FeedLoop)
    \/ StopDisable
    \/ StopStep
    \/ LoopStep(FeedLoop)
    \/ \E c \in Conns : TransportFail(c)
    \/ \E f \in FeedFrames : FrameArrives(FeedLoop, f)
    \/ HandleFrameL2(FeedLoop)

SpecFeed == Init /\ [][NextFeed]_vars

(***************************************************************************)
(* The MarketDataClient with a record of what each connection delivered.   *)
(***************************************************************************)
\* Frames one connection delivers at most.
MaxFrames == 2

\* A snapshot and an update of the same book.
BookFrames ==
    {L2(<<Event("snapshot", <<Entry(SideBid, Dec(5), Dec(1)), Entry(SideAsk, Dec(10), Dec(1))>>)>>),
     L2(<<Event("update", <<Entry(SideBid, Dec(5), Dec(2)), Entry(SideAsk, Dec(11), Dec(1))>>)>>)}

\* readMessages(): ReadMessage returns the next frame of the connection,
\* which is recorded as delivered to goroutine l.
DeliverFrame(l, f) ==
    /\ ReadMessage(l, f)
    /\ Len(delivered[rconn[l]]) < MaxFrames
    /\ delivered' = [delivered EXCEPT ![rconn[l]] =
                        Append(@, [frame |-> f, by |-> l, handled |-> FALSE])]

\* readMessages(): handleMessage returns for the frame goroutine l holds,
\* which is recorded as handled.
HandleDelivered(l) ==
    /\ HandleL2(l)
    /\ delivered' = [delivered EXCEPT ![rconn[l]] =
                        [i \in DOMAIN @ |->
                            IF @[i].by = l /\ ~@[i].handled
                            THEN [@[i] EXCEPT !.handled = TRUE] ELSE @[i]]]

NextOrdered ==
    \/ \E l \in Loops : Start(l)
    \/ \E l \in Loops : LoopStep(l)
    \/ \E l \in Loops : \E f \in BookFrames : DeliverFrame(l, f)
    \/ \E l \in Loops : HandleDelivered(l)

SpecOrdered == Init /\ [][NextOrdered]_vars

(***************************************************************************)
(* Properties of the client.                                               *)
(***************************************************************************)
Running(l) == pc[l] \notin {"none", "exited"}
StopCalled == stopPc # "idle"

\* C1: for any number of Start() calls on one client, at most one run loop
\* is ever active.
AtMostOneLoop == Cardinality({l \in Loops : Running(l)}) <= 1

\* C2: after Stop() every started run loop eventually terminates; none stays
\* blocked in a transport read.
StopTerminatesLoops ==
    \A l \in Loops : (stopPc = "returned" /\ pc[l] # "none") ~> (pc[l] = "exited")

\* C3: once Stop() has returned and the loop has exited, the reconnect flag
\* is disabled, the context is cancelled and every connection the client
\* opened is closed.
StopClosesEverything ==
    (/\ stopPc = "returned"
     /\ \E l \in Loops : pc[l] = "exited"
     /\ \A l \in Loops : ~Running(l))
    => (/\ ~reconnect
        /\ cancelled
        /\ \A c \in Conns : connState[c] \in {"none", "closed"})

\* A step of a Stop() call that follows a Stop() call that has returned.
LaterStopStep ==
    /\ stopPc' # stopPc
    /\ stops >= 2 \/ (stops >= 1 /\ stopPc = "returned")

\* Stop() has run and no run loop has got past its loop condition: nothing
\* was ever connected.
StoppedBeforeStart ==
    /\ ~reconnect
    /\ cancelled
    /\ \A c \in Conns : connState[c] = "none"
    /\ \A l \in Loops : pc[l] \in {"none", "loop", "exited"}

\* C14: a later Stop() changes nothing that the earlier Stop() set (the
\* reconnect flag, the context, a connection already closed) and fails
\* nowhere; and after a Stop() that came before Start(), no Start() ever
\* opens a connection.
StopIdempotentAndSafeBeforeStart ==
    /\ [][LaterStopStep =>
            /\ reconnect' = reconnect
            /\ cancelled' = cancelled
            /\ conn' = conn
            /\ (conn = 0 \/ connState[conn] = "closed") => connState' = connState
            /\ crashed' = crashed]_vars
    /\ [][StoppedBeforeStart => StoppedBeforeStart']_vars

\* C14 witness: Stop() has returned twice and a run loop started on the
\* stopped client has exited with no connection ever opened.
StopTwiceWitness ==
    /\ stops = 2
    /\ stopPc = "returned"
    /\ \E l \in Loops : pc[l] = "exited"
    /\ \A c \in Conns : connState[c] = "none"

\* C4: while Stop() has not been called, every connect, subscribe or read
\* failure is followed by a new connect attempt, and no run loop ends.
NoFailureIsFatal ==
    /\ \A l \in Loops : [](failed[l] => <>(pc[l] = "dial" \/ StopCalled))
    /\ [](~StopCalled => \A l \in Loops : pc[l] # "exited")

\* C4 witness: a loop that failed is in its next connect attempt, Stop() not called.
RetryWitness == \E l \in Loops : failed[l] /\ pc[l] = "dial" /\ ~StopCalled

\* Run loop l has subscribed and is reading or handling frames.
Streaming(l) == pc[l] \in {"read", "handle"}

ErrorFrameDoesNotReconnect ==
    [][\A l \in Loops :
        (pc[l] = "handle" /\ frame[l].type = "error" /\ pc'[l] # "handle")
            => /\ result'[l] = "err"
               /\ pc'[l] = "readctx"
               /\ connState' = connState
               /\ conn' = conn
               /\ failed'[l] = failed[l]]_vars

\* C13 witness: a loop whose last frame was a server error reads on, on the
\* connection it was reading, still open.
ErrorFrameWitness ==
    \E l \in Loops :
        /\ result[l] = "err"
        /\ pc[l] = "read"
        /\ connState[rconn[l]] = "open"
        /\ ~failed[l]
        /\ reconnect

MalformedEntry(u) == Len(u.side) < 3 \/ u.px.k # "dec" \/ u.qty.k # "dec"
MalformedEvent(e) ==
    \/ e.type = NotAString
    \/ ~e.isArray
    \/ \E i \in 1..Len(e.updates) : MalformedEntry(e.updates[i])
\* Non-JSON bytes, or JSON of the wrong shape.
Malformed(f) ==
    \/ f.kind = "nonjson"
    \/ f.kind = "json" /\ ~f.isArray
    \/ f.kind = "json" /\ \E i \in 1..Len(f.events) : MalformedEvent(f.events[i])

\* C10: a malformed frame is logged and skipped: the loop that handled it goes
\* on to read the next frame of the same connection.
MalformedFrameSkipped ==
    [][\A l \in Loops :
        (pc[l] = "handle" /\ Malformed(frame[l]) /\ pc'[l] # "handle")
            => (pc'[l] = "readctx" /\ ~crashed')]_vars

(***************************************************************************)
(* Properties of the order book.                                           *)
(***************************************************************************)
StrictlyDescending(side) ==
    \A i \in 1..(Len(side) - 1) : side[i].Price > side[i + 1].Price
StrictlyAscending(side) ==
    \A i \in 1..(Len(side) - 1) : side[i].Price < side[i + 1].Price

Applied(type) == lastEvent.phase = "applied" /\ lastEvent.event.type = type
TheBook == books[lastEvent.event.product_id]

\* C5: the book that results from a delta applied after a snapshot has its
\* bids strictly descending and its asks strictly ascending by price, hence
\* no price twice on a side.
DeltaBookStrictlySorted ==
    (Applied("update") /\ lastEvent.synced)
        => (StrictlyDescending(TheBook.Bids) /\ StrictlyAscending(TheBook.Asks))

\* C5 witness: a delta applied after a snapshot left two levels on each side.
DeltaBookWitness ==
    /\ Applied("update")
    /\ lastEvent.synced
    /\ ~crashed
    /\ Len(TheBook.Bids) = 2
    /\ Len(TheBook.Asks) = 2

\* The levels of side at another price than p, in order.
RECURSIVE Without(_, _)
Without(side, p) ==
    IF side = <<>> THEN <<>>
    ELSE IF Head(side).Price = p THEN Without(Tail(side), p)
         ELSE <<Head(side)>> \o Without(Tail(side), p)

\* A delta of one entry, of size zero, for price p on the bid (ask) side.
ZeroDelta(event, side, p) ==
    /\ event.type = "update"
    /\ event.updates = <<Entry(side, Dec(p), Dec(0))>>

\* This step is handleL2Event on an event, on a book that exists.
AppliesToBook ==
    /\ lastEvent.phase = "none"
    /\ lastEvent'.phase = "applied"
    /\ books[lastEvent'.event.product_id].exists

\* C7: a delta of size zero removes exactly the level at its price, if there
\* is one, and leaves every other level of both sides as it was.
ZeroDeltaRemovesLevel ==
    [][\A p \in Prices :
        LET old == books[lastEvent'.event.product_id]
            new == books'[lastEvent'.event.product_id]
        IN /\ (AppliesToBook /\ ZeroDelta(lastEvent'.event, SideBid, p))
                => (~crashed' /\ new.Bids = Without(old.Bids, p) /\ new.Asks = old.Asks)
           /\ (AppliesToBook /\ ZeroDelta(lastEvent'.event, SideAsk, p))
                => (~crashed' /\ new.Asks = Without(old.Asks, p) /\ new.Bids = old.Bids)]_vars

\* The non-zero levels a snapshot holds for the bid side (the ask side).
SnapshotLevels(event, bids) ==
    LET levels == parseUpdates(event)
    IN {levels[k] : k \in {x \in DOMAIN levels :
            /\ levels[x].Size # 0
            /\ IF bids THEN SubSeq(x, 1, 3) = SideBid
               ELSE SubSeq(x, 1, 3) \in {SideAsk, PrefixOff}}}

Min(a, b) == IF a < b THEN a ELSE b

\* side holds the best MaxLevels levels of S and nothing else.
BestLevelsOf(side, S, bids) ==
    /\ Len(side) = Min(Cardinality(S), MaxLevels)
    /\ \A i \in 1..Len(side) : side[i] \in S
    /\ \A i \in 1..Len(side) : \A x \in S :
          (\A j \in 1..Len(side) : side[j] # x)
              => IF bids THEN x.Price <= side[i].Price ELSE x.Price >= side[i].Price

\* C8: after a snapshot the book is exactly the snapshot's non-zero levels,
\* by side, bids descending and asks ascending, cut to the maximum depth.
SnapshotReplacesBook ==
    [][(lastEvent.phase = "none" /\ lastEvent'.phase = "applied"
            /\ lastEvent'.event.type = "snapshot")
        => LET new == books'[lastEvent'.event.product_id]
           IN /\ ~crashed'
              /\ StrictlyDescending(new.Bids)
              /\ StrictlyAscending(new.Asks)
              /\ BestLevelsOf(new.Bids, SnapshotLevels(lastEvent'.event, TRUE), TRUE)
              /\ BestLevelsOf(new.Asks, SnapshotLevels(lastEvent'.event, FALSE), FALSE)]_vars

\* The levels a delta leaves on the bid (ask) side of a book: the book's
\* levels at the prices the delta does not name, and the delta's levels of
\* that side that are not of size zero.
MergedLevels(side, event, bids) ==
    LET levels == parseUpdates(event)
        K == {x \in DOMAIN levels : SubSeq(x, 1, 3) = IF bids THEN SideBid ELSE SideAsk}
    IN {side[i] : i \in {n \in DOMAIN side : \A k \in K : levels[k].Price # side[n].Price}}
       \cup {levels[k] : k \in {x \in K : levels[x].Size # 0}}

\* side holds at most MaxLevels levels, all of S, none worse than a level of
\* S it does not hold, and it leaves a level of S out only when it is full.
CappedToBest(side, S, bids) ==
    LET Held(x) == \E j \in 1..Len(side) : side[j] = x
    IN /\ Len(side) <= MaxLevels
       /\ \A i \in 1..Len(side) : side[i] \in S
       /\ \A x \in S : ~Held(x) =>
             /\ Len(side) = MaxLevels
             /\ \A i \in 1..Len(side) :
                   IF bids THEN x.Price <= side[i].Price ELSE x.Price >= side[i].Price

\* The entries of the event are labelled bid or ask.
BidsAndAsksOnly(event) ==
    \A i \in DOMAIN event.updates : event.updates[i].side \in {SideBid, SideAsk}

OffersAsAsks(event) ==
    [event EXCEPT !.updates =
        [i \in DOMAIN event.updates |->
            IF event.updates[i].side = SideOffer
            THEN [event.updates[i] EXCEPT !.side = SideAsk]
            ELSE event.updates[i]]]

\* C16: a level labelled "offer" is treated as an ask in snapshots and in
\* deltas: an event that publishes a book publishes the book that the same
\* event publishes with its "offer" entries labelled "ask".
OfferTreatedAsAsk ==
    [][(lastEvent.phase = "none" /\ lastEvent'.phase = "applied" /\ ~crashed')
        => \E o \in handleL2Event(books, OffersAsAsks(lastEvent'.event)) :
              o.books = books']_vars

\* The first level of a side, absent when the side is empty.
FirstLevel(side) ==
    IF side = <<>> THEN [ok |-> FALSE] ELSE [ok |-> TRUE, level |-> side[1]]

\* C18: once Update has released the book (handleL2Event is atomic here, so
\* every state is one), GetBestBid and GetBestAsk return the first level of
\* the bid and the ask side of the book, and nothing when the side is empty.
BestLevelsMatchBook ==
    \A p \in Products :
        books[p].exists =>
            /\ GetBestBid(books[p]) = FirstLevel(books[p].Bids)
            /\ GetBestAsk(books[p]) = FirstLevel(books[p].Asks)

\* C19: every level of every book that handleL2Event published has a size
\* above zero, whatever snapshot and update events came in.
PublishedSizesPositive ==
    ~crashed =>
        \A p \in Products :
            books[p].exists =>
                /\ \A i \in 1..Len(books[p].Bids) : books[p].Bids[i].Size > 0
                /\ \A i \in 1..Len(books[p].Asks) : books[p].Asks[i].Size > 0

\* The books after HandleMessage on each of the frames, in order.
RECURSIVE ApplyFrames(_, _)
ApplyFrames(bks, frames) ==
    IF frames = <<>> THEN {bks}
    ELSE UNION {ApplyFrames(o.books, Tail(frames)) : o \in HandleMessage(bks, Head(frames))}

\* C20: a frame of a connection is handled only once every frame the
\* connection delivered before it has been handled, and when the frames of
\* the only connection that delivered any are all handled, the books are
\* those that handling them one after the other in delivery order leaves.
FramesHandledInOrder ==
    /\ \A c \in Conns : \A i, j \in DOMAIN delivered[c] :
          (i < j /\ delivered[c][j].handled) => delivered[c][i].handled
    /\ \A c \in Conns :
          (/\ ~crashed
           /\ \A d \in Conns \ {c} : delivered[d] = <<>>
           /\ \A i \in DOMAIN delivered[c] : delivered[c][i].handled)
          => books \in ApplyFrames([p \in Products |-> NoBook],
                                   [i \in DOMAIN delivered[c] |-> delivered[c][i].frame])

\* The event without the entries that a later entry of the same side label
\* and price follows.
LastEntries(event) ==
    LET u == event.updates
        Kept == {i \in DOMAIN u :
                    ~\E j \in DOMAIN u : j > i /\ u[j].side = u[i].side /\ u[j].px = u[i].px}
        RECURSIVE Pick(_)
        Pick(i) == IF i > Len(u) THEN <<>>
                   ELSE (IF i \in Kept THEN <<u[i]>> ELSE <<>>) \o Pick(i + 1)
    IN [event EXCEPT !.updates = Pick(1)]

DeltaWithoutBookTolerated ==
    [][(lastEvent.phase = "none" /\ lastEvent'.phase = "applied"
            /\ lastEvent'.event.type = "update"
            /\ ~books[lastEvent'.event.product_id].exists)
        => LET new == books'[lastEvent'.event.product_id]
           IN /\ ~crashed'
              /\ new.exists
              /\ BestLevelsOf(new.Bids, SnapshotLevels(lastEvent'.event, TRUE), TRUE)]_vars

(***************************************************************************)
(* Decimal arithmetic of the settlement.  An amount is an integer number   *)
(* of thousandths; a decimal string that does not parse has ok = FALSE.    *)
(***************************************************************************)
\* Digits after the point that Decimal.Div keeps (shopspring's
\* DivisionPrecision is 16; fewer digits keep the products in 32 bits).
DivisionPrecision == 3

RECURSIVE Pow10(_)
Pow10(n) == IF n = 0 THEN 1 ELSE 10 * Pow10(n - 1)

\* Long division: n more decimal digits of (q + rem / b).
RECURSIVE DivDigits(_, _, _, _)
DivDigits(q, rem, b, n) ==
    IF n = 0 THEN [q |-> q, rem |-> rem]
    ELSE DivDigits(q * 10 + (rem * 10) \div b, (rem * 10) % b, b, n - 1)

\* A division that keeps no digit after the point.
DivWhole(a, b) == (a \div b) * Pow10(DivisionPrecision)

\* Decimal.Div on a / b, both non-negative and in one unit: the quotient in
\* units of 10^-DivisionPrecision, rounded half away from zero.
Div(a, b) ==
    LET d == DivDigits(a \div b, a % b, b, DivisionPrecision)
    IN IF 2 * d.rem >= b THEN d.q + 1 ELSE d.q

\* Decimal.Round(2) of x units of 10^-k (k >= 2, x >= 0), in thousandths:
\* to the nearest hundredth, half away from zero.
Round2(x, k) ==
    LET unit == Pow10(k - 2)
    IN 10 * ((2 * x + unit) \div (2 * unit))

Amount(v) == [ok |-> TRUE, v |-> v]
Unparsable == [ok |-> FALSE, v |-> 0]
\* DefaultZeroString
DefaultZero == Amount(0)

\* FeesConfig.Percent, in thousandths (the default, "0.002").
FeePercent == 2

\* FlatFeeStrategy.ComputeFromNotional: the same amount for every notional.
ComputeFlat(notional) == FeePercent * Pow10(6)

\* FeeStrategy.ComputeFromNotional: notional (units of 10^-6) times the
\* percent, in units of 10^-9.
ComputeFromNotional(notional) == notional * FeePercent

\* A no-fill test that looks at the quantity only.
NoFillByQuantity(cumQty, avgPx) == ~cumQty.ok \/ cumQty.v = 0

\* calculateFeeSettlement, the two "no fill" tests: cumQty, then avgPx, does
\* not parse or is zero.
NoFill(cumQty, avgPx) == ~cumQty.ok \/ cumQty.v = 0 \/ ~avgPx.ok \/ avgPx.v = 0

\* calculateFeeSettlement.  cumQty, avgPx, userRequestedAmount and
\* markupAmount are decimal strings: [ok, v] with v in thousandths.
calculateFeeSettlement(cumQty, avgPx, userRequestedAmount, markupAmount) ==
    IF NoFill(cumQty, avgPx)
    THEN [ActualFilledValue |-> DefaultZero, ActualEarnedFee |-> DefaultZero,
          RebateAmount |-> markupAmount]
    ELSE
    LET actualFilledValue == cumQty.v * avgPx.v          \* units of 10^-6
        filled == Amount(Round2(actualFilledValue, 6))
    IN IF ~markupAmount.ok \/ markupAmount.v = 0
       THEN [ActualFilledValue |-> filled,
             ActualEarnedFee |-> Amount(Round2(ComputeFromNotional(actualFilledValue), 9)),
             RebateAmount |-> DefaultZero]
       ELSE IF ~userRequestedAmount.ok \/ userRequestedAmount.v = 0
       THEN [ActualFilledValue |-> filled,
             ActualEarnedFee |-> Amount(Round2(markupAmount.v, 3)),
             RebateAmount |-> DefaultZero]
       ELSE
       LET P == DivisionPrecision
           feeRate == Div(markupAmount.v, userRequestedAmount.v)   \* units of 10^-P
           oneMinusFeeRate == Pow10(P) - feeRate
       IN IF oneMinusFeeRate <= 0
          THEN [ActualFilledValue |-> filled, ActualEarnedFee |-> DefaultZero,
                RebateAmount |-> Amount(Round2(markupAmount.v, 3))]
          ELSE
          LET actualUserCost ==                                      \* units of 10^-P
                  Div(actualFilledValue, oneMinusFeeRate * Pow10(6 - P))
              product == actualUserCost * feeRate                    \* units of 10^-2P
              markup == markupAmount.v * Pow10(2 * P - 3)            \* units of 10^-2P
              actualEarnedFee == IF product > markup THEN markup ELSE product
              difference == markup - actualEarnedFee
              rebateAmount == IF difference < 0 THEN 0 ELSE difference
          IN [ActualFilledValue |-> filled,
              ActualEarnedFee |-> Amount(Round2(actualEarnedFee, 2 * P)),
              RebateAmount |-> Amount(Round2(rebateAmount, 2 * P))]

(***************************************************************************)
(* calculateFeeSettlement on the fill data and fee metadata of an order.   *)
(***************************************************************************)
Quantities == {Unparsable, Amount(0), Amount(500), Amount(995), Amount(1000), Amount(2000)}
AvgPrices == {Unparsable, Amount(0), Amount(1000), Amount(2000), Amount(5000)}
Requested == {Unparsable, Amount(0), Amount(1000), Amount(2000), Amount(10000)}
Markups == {Unparsable, Amount(0), Amount(5), Amount(10), Amount(50), Amount(1000), Amount(2000)}

InitSettle ==
    /\ InitClient /\ InitBooks /\ InitStream /\ InitOrders /\ crashed = FALSE
    /\ call = NoCall /\ place = NoPlace /\ writers = NoWriters /\ uncapped = NoLevels
    /\ settle \in [called : {FALSE}, cumQty : Quantities, avgPx : AvgPrices,
                   userRequestedAmount : Requested, markupAmount : Markups,
                   result : {[ActualFilledValue |-> DefaultZero,
                              ActualEarnedFee |-> DefaultZero,
                              RebateAmount |-> DefaultZero]}]

\* processOrderUpdate settles a terminal order.
Settle ==
    /\ ~settle.called
    /\ settle' = [settle EXCEPT
                    !.called = TRUE,
                    !.result = calculateFeeSettlement(settle.cumQty, settle.avgPx,
                                   settle.userRequestedAmount, settle.markupAmount)]
    /\ UNCHANGED <<clientVars, crashed, books, lastEvent, streamVars, orderVars, call, place, writers, uncapped>>

NextSettle == Settle

SpecSettle == InitSettle /\ [][NextSettle]_vars

(***************************************************************************)
(* Product symbols and the precision of their quote currency.  A symbol is *)
(* the sequence of its parts between the "-" separators.                   *)
(***************************************************************************)
PrecisionUSD == 2
PrecisionBTC == 8
PrecisionETH == 8
PrecisionDefault == 8

\* GetQuoteCurrency: the second of exactly two parts, else "".
GetQuoteCurrency(productSymbol) ==
    IF Len(productSymbol) = 2 THEN productSymbol[2] ELSE ""

\* GetQuotePrecision
GetQuotePrecision(quoteCurrency) ==
    IF quoteCurrency \in {"USD", "USDC", "USDT", "EUR", "GBP"} THEN PrecisionUSD
    ELSE IF quoteCurrency = "BTC" THEN PrecisionBTC
    ELSE IF quoteCurrency = "ETH" THEN PrecisionETH
    ELSE PrecisionDefault

\* GetProductQuotePrecision
GetProductQuotePrecision(productSymbol) ==
    GetQuotePrecision(GetQuoteCurrency(productSymbol))

\* Products of the orders placed.
OrderProducts == {<<"BTC", "USD">>, <<"ETH", "BTC">>, <<"BTCUSD">>}

(***************************************************************************)
(* PrepareOrderRequest.  The amounts of a request are integer thousandths; *)
(* the amounts of the prepared order that derive from the quote value are  *)
(* integer millionths (the fee percent has three places).                  *)
(***************************************************************************)
\* NormalizeSide, NormalizeOrderType
NormalizeSide(side) ==
    IF side = "buy" THEN "BUY" ELSE IF side = "sell" THEN "SELL" ELSE side
NormalizeOrderType(orderType) ==
    IF orderType = "market" THEN "MARKET" ELSE IF orderType = "limit" THEN "LIMIT" ELSE orderType

\* A rounding that cuts the digits after the places kept.
RoundDown(x, k, places) ==
    IF places >= k THEN x ELSE Pow10(k - places) * (x \div Pow10(k - places))

\* Decimal.Round(places) of x >= 0 units of 10^-k, in units of 10^-k: half
\* away from zero.
RoundPlaces(x, k, places) ==
    IF places >= k THEN x
    ELSE LET unit == Pow10(k - places)
         IN unit * ((2 * x + unit) \div (2 * unit))

\* A string field of the Prime order that was not assigned.
NotSet == [set |-> FALSE]
StringOf(v) == [set |-> TRUE, v |-> v]
\* PreparedOrder.Metadata == nil
NoMetadata == [exists |-> FALSE]

\* A test for a quote order that looks at the quote value only.
HasQuoteValue(req) == req.QuoteValue # 0

\* PrepareOrderRequest: req.Unit == "quote" && !req.QuoteValue.IsZero()
IsQuoteOrder(req) == req.Unit = "quote" /\ req.QuoteValue # 0

\* PrepareOrderRequest: req.Unit == "base" && !req.BaseQty.IsZero()
IsBaseOrder(req) == req.Unit = "base" /\ req.BaseQty # 0

\* PrepareOrderRequest
PrepareOrderRequest(req, generateClientOrderId) ==
    LET normalizedSide == NormalizeSide(req.Side)
        normalizedType == NormalizeOrderType(req.Type)
        clientOrderId == IF generateClientOrderId THEN "uuid" ELSE ""
        userRequestedAmount == req.QuoteValue * 1000
        precision == GetProductQuotePrecision(req.Product)
        markupAmount == RoundPlaces(ComputeFromNotional(req.QuoteValue), 6, precision)
        primeOrderAmount == userRequestedAmount - markupAmount
    IN [PrimeRequest |->
           [ProductId |-> req.Product, Side |-> normalizedSide, Type |-> normalizedType,
            ClientOrderId |-> clientOrderId,
            QuoteValue |-> IF IsQuoteOrder(req) THEN StringOf(primeOrderAmount) ELSE NotSet,
            BaseQuantity |-> IF ~IsQuoteOrder(req) /\ IsBaseOrder(req)
                             THEN StringOf(req.BaseQty) ELSE NotSet,
            LimitPrice |-> IF req.Price # 0 THEN StringOf(req.Price) ELSE NotSet],
        Metadata |->
           IF IsQuoteOrder(req)
           THEN [exists |-> TRUE, UserRequestedAmount |-> userRequestedAmount,
                 MarkupAmount |-> markupAmount, PrimeOrderQuoteAmount |-> primeOrderAmount]
           ELSE NoMetadata,
        NormalizedReq |->
           [Product |-> req.Product, Side |-> normalizedSide, Type |-> normalizedType,
            ClientOrderId |-> clientOrderId]]

\* Order requests: OrderRequest with amounts in thousandths.
QuoteValues == {0, 1, 1000, 2500, 3000, 10000}
BaseQuantities == {0, 1, 500}
LimitPrices == {0, 1000}
OrderRequests ==
    [Product : OrderProducts, Side : {"buy", "SELL"}, Type : {"market", "LIMIT"},
     BaseQty : BaseQuantities, QuoteValue : QuoteValues, Price : LimitPrices,
     Unit : {"quote", "base", ""}]

InitPrepare ==
    /\ InitClient /\ InitBooks /\ InitStream /\ InitOrders
    /\ crashed = FALSE /\ settle = NoSettle /\ place = NoPlace /\ writers = NoWriters /\ uncapped = NoLevels
    /\ call \in [fn : {"PrepareOrderRequest"}, done : {FALSE}, req : OrderRequests,
                  generateClientOrderId : BOOLEAN, out : {NoMetadata}]

\* The order service prepares the order of a request.
Prepare ==
    /\ call.fn = "PrepareOrderRequest"
    /\ ~call.done
    /\ call' = [call EXCEPT !.done = TRUE,
                            !.out = PrepareOrderRequest(call.req, call.generateClientOrderId)]
    /\ UNCHANGED <<clientVars, crashed, books, lastEvent, settle, place, writers, uncapped, streamVars, orderVars>>

NextPrepare == Prepare

SpecPrepare == InitPrepare /\ [][NextPrepare]_vars

(***************************************************************************)
(* AdjustBidPrice and AdjustAskPrice.  Price, quantity and fee percent are *)
(* integer thousandths; the adjusted price is in units of                  *)
(* 10^-DivisionPrecision.                                                  *)
(***************************************************************************)
\* CalculateFee: qty x price x feePercent, in units of 10^-9.
CalculateFee(qty, price, feePercent) == qty * price * feePercent

\* The price in the unit of the adjusted prices.
Unadjusted(price) == price * Pow10(DivisionPrecision - 3)

\* AdjustBidPrice
AdjustBidPrice(price, qty, feePercent) ==
    IF qty = 0 THEN Unadjusted(price)
    ELSE LET fee == CalculateFee(qty, price, feePercent)
             notional == qty * price * 1000                    \* units of 10^-9
             adjustedNotional == notional - fee
         IN Div(adjustedNotional, qty * Pow10(6))

\* An AdjustAskPrice that takes the fee off the notional.
AdjustAskPriceLess(price, qty, feePercent) ==
    IF qty = 0 THEN Unadjusted(price)
    ELSE Div(qty * price * 1000 - CalculateFee(qty, price, feePercent), qty * Pow10(6))

\* AdjustAskPrice
AdjustAskPrice(price, qty, feePercent) ==
    IF qty = 0 THEN Unadjusted(price)
    ELSE LET fee == CalculateFee(qty, price, feePercent)
             notional == qty * price * 1000                    \* units of 10^-9
             adjustedNotional == notional + fee
         IN Div(adjustedNotional, qty * Pow10(6))

\* Market prices, level quantities and fee percents, in thousandths.
MarketPrices == {1, 2, 5, 999, 1000, 1500}
LevelQuantities == {0, 1, 3, 7}
FeePercents == {1, 2, 5}

InitAdjust ==
    /\ InitClient /\ InitBooks /\ InitStream /\ InitOrders
    /\ crashed = FALSE /\ settle = NoSettle /\ place = NoPlace /\ writers = NoWriters /\ uncapped = NoLevels
    /\ call \in [fn : {"AdjustBidPrice", "AdjustAskPrice"}, done : {FALSE},
                  price : MarketPrices, qty : LevelQuantities, feePercent : FeePercents,
                  out : {0}]

\* A bid price is adjusted for display.
AdjustBid ==
    /\ call.fn = "AdjustBidPrice"
    /\ ~call.done
    /\ call' = [call EXCEPT !.done = TRUE,
                            !.out = AdjustBidPrice(call.price, call.qty, call.feePercent)]
    /\ UNCHANGED <<clientVars, crashed, books, lastEvent, settle, place, writers, uncapped, streamVars, orderVars>>

\* An ask price is adjusted for display.
AdjustAsk ==
    /\ call.fn = "AdjustAskPrice"
    /\ ~call.done
    /\ call' = [call EXCEPT !.done = TRUE,
                            !.out = AdjustAskPrice(call.price, call.qty, call.feePercent)]
    /\ UNCHANGED <<clientVars, crashed, books, lastEvent, settle, place, writers, uncapped, streamVars, orderVars>>

NextAdjust ==
    \/ AdjustBid
    \/ AdjustAsk

SpecAdjust == InitAdjust /\ [][NextAdjust]_vars

(***************************************************************************)
(* Properties of the settlement.                                           *)
(***************************************************************************)
\* Valid quote-order inputs: requested > 0, 0 < held < requested, and a
\* filled quantity and average price that are not negative.
ValidQuoteOrder ==
    /\ settle.userRequestedAmount.ok /\ settle.markupAmount.ok
    /\ settle.cumQty.ok /\ settle.avgPx.ok
    /\ settle.userRequestedAmount.v > 0
    /\ 0 < settle.markupAmount.v
    /\ settle.markupAmount.v < settle.userRequestedAmount.v

Abs(x) == IF x < 0 THEN -x ELSE x

\* C6: for valid quote-order inputs, earned fee plus rebate is the fee held
\* to within one hundredth, 0 <= earned fee <= fee held, and rebate >= 0.
SettlementInvariant ==
    (settle.called /\ ValidQuoteOrder)
        => LET earned == settle.result.ActualEarnedFee.v
               rebate == settle.result.RebateAmount.v
               held == settle.markupAmount.v
           IN /\ Abs(earned + rebate - held) <= 10
              /\ 0 <= earned
              /\ earned <= held
              /\ rebate >= 0

\* A decimal string that is zero or does not parse.
ZeroOrUnparsable(a) == ~a.ok \/ a.v = 0

\* C21: when the cumulative quantity or the average price is zero or does
\* not parse, the filled value and the earned fee are zero and the rebate is
\* the fee held as it was passed in, whatever the other arguments are.
NoFillRefundsHold ==
    (settle.called /\ (ZeroOrUnparsable(settle.cumQty) \/ ZeroOrUnparsable(settle.avgPx)))
        => /\ settle.result.ActualFilledValue = Amount(0)
           /\ settle.result.ActualEarnedFee = Amount(0)
           /\ settle.result.RebateAmount = settle.markupAmount

\* C21 witness: a settlement of a filled quantity at a price that does not
\* parse, with a fee held.
NoFillWitness ==
    /\ settle.called
    /\ ~ZeroOrUnparsable(settle.cumQty)
    /\ ~settle.avgPx.ok
    /\ ~ZeroOrUnparsable(settle.markupAmount)
    /\ ~ZeroOrUnparsable(settle.userRequestedAmount)

\* The settlement is of a fill: quantity and average price parse and are
\* not zero.
NonZeroFill == ~ZeroOrUnparsable(settle.cumQty) /\ ~ZeroOrUnparsable(settle.avgPx)

QuoteOrderFill ==
    /\ NonZeroFill
    /\ ~ZeroOrUnparsable(settle.markupAmount)
    /\ ~ZeroOrUnparsable(settle.userRequestedAmount)

\* C23: for a quote order with a fill, a fee held and a requested amount,
\* when held / requested is one or more nothing is earned and the rebate is
\* the fee held; otherwise the earned fee is capped at the fee held and the
\* rebate is not negative.
QuoteSettlementCapped ==
    (settle.called /\ QuoteOrderFill)
        => LET earned == settle.result.ActualEarnedFee.v
               rebate == settle.result.RebateAmount.v
               held == settle.markupAmount.v
           IN IF held >= settle.userRequestedAmount.v
              THEN earned = 0 /\ rebate = held
              ELSE earned <= held /\ rebate >= 0

\* A quote order filled to a fraction f in [0, 1] of the amount sent to the
\* venue (requested - held), with a rate held / requested that Div
\* represents exactly.
PartialFill ==
    /\ QuoteOrderFill
    /\ settle.markupAmount.v < settle.userRequestedAmount.v
    /\ settle.cumQty.v * settle.avgPx.v
          <= (settle.userRequestedAmount.v - settle.markupAmount.v) * 1000
    /\ (settle.markupAmount.v * Pow10(DivisionPrecision)) % settle.userRequestedAmount.v = 0

\* Half a hundredth, for the final rounding, and a thousandth, for the
\* digits the two divisions drop: in thousandths.
SettleTolerance == 6

\* x (thousandths) is f x held to within the tolerance, f being the filled
\* value over the amount sent to the venue: |x - fv * held / sent| <= tol,
\* cross-multiplied and computed on the thousands and the remainder of the
\* filled value apart.
ProportionalToFill(x) ==
    LET fv == settle.cumQty.v * settle.avgPx.v                 \* units of 10^-6
        held == settle.markupAmount.v
        sent == settle.userRequestedAmount.v - held
        D == x * sent - (fv \div 1000) * held
        C == (fv % 1000) * held
        T == SettleTolerance * sent
    IN /\ D <= T + (C \div 1000)
       /\ D >= (C + 999) \div 1000 - T

\* C24: a quote order filled to the fraction f of the amount sent to the
\* venue earns f x held and rebates (1 - f) x held, up to the rounding of the
\* outputs; a complete fill of an order whose hold is a number of hundredths
\* earns the hold and rebates nothing.
PartialFillProportional ==
    (settle.called /\ PartialFill)
        => LET earned == settle.result.ActualEarnedFee.v
               rebate == settle.result.RebateAmount.v
               held == settle.markupAmount.v
               sent == settle.userRequestedAmount.v - held
           IN /\ ProportionalToFill(earned)
              /\ ProportionalToFill(held - rebate)
              /\ (settle.cumQty.v * settle.avgPx.v = sent * 1000 /\ held % 10 = 0)
                    => (earned = held /\ rebate = 0)

\* C24 witness: a partial fill that earned part of the hold and rebated the
\* rest.
PartialFillWitness ==
    /\ settle.called
    /\ PartialFill
    /\ settle.result.ActualEarnedFee.v > 0
    /\ settle.result.RebateAmount.v > 0

\* o (thousandths) is x (units of 10^-k, k >= 3) rounded to prec places:
\* x itself when x has no more than prec places, else at most half a unit
\* of the last place away from x.
RoundsTo(o, x, k, prec) ==
    IF prec >= k THEN o * Pow10(k - 3) = x
    ELSE 2 * Abs(o * Pow10(k - 3) - x) <= Pow10(k - prec)

\* C25: the filled value of a settled fill is cumQty x avgPx rounded to the
\* precision of the quote currency of the order's product, whichever product
\* the order is for; so is the fee earned on an order without a fee held.
OutputsAtQuotePrecision ==
    (settle.called /\ NonZeroFill)
        => \A product \in OrderProducts :
              LET prec == GetProductQuotePrecision(product)
                  fv == settle.cumQty.v * settle.avgPx.v
              IN /\ RoundsTo(settle.result.ActualFilledValue.v, fv, 6, prec)
                 /\ ZeroOrUnparsable(settle.markupAmount)
                      => RoundsTo(settle.result.ActualEarnedFee.v, fv * FeePercent, 9, prec)

(***************************************************************************)
(* Properties of the order preparation.                                    *)
(***************************************************************************)
Prepared == call.fn = "PrepareOrderRequest" /\ call.done

\* C26: a prepared quote order holds the fee percent of the requested amount
\* rounded to the precision of the product's quote currency (a multiple of
\* the last place, at most half of it away), sends the requested amount
\* less the hold to the venue, and the two add up to the requested amount.
HoldAndSentAddUp ==
    (Prepared /\ call.req.Unit = "quote" /\ call.req.QuoteValue > 0)
        => LET md == call.out.Metadata
               places == GetProductQuotePrecision(call.req.Product)
               unit == IF places >= 6 THEN 1 ELSE Pow10(6 - places)
               exact == call.req.QuoteValue * FeePercent           \* millionths
           IN /\ md.exists
              /\ md.MarkupAmount % unit = 0
              /\ 2 * Abs(md.MarkupAmount - exact) <= unit
              /\ md.PrimeOrderQuoteAmount = call.req.QuoteValue * 1000 - md.MarkupAmount
              /\ call.out.PrimeRequest.QuoteValue = StringOf(md.PrimeOrderQuoteAmount)
              /\ md.MarkupAmount + md.PrimeOrderQuoteAmount = md.UserRequestedAmount
              /\ md.UserRequestedAmount = call.req.QuoteValue * 1000

\* C26 witness: a prepared quote order in US dollars whose hold was rounded
\* up to a whole hundredth.
HoldRoundedWitness ==
    /\ Prepared
    /\ call.req.Unit = "quote"
    /\ call.req.Product = <<"BTC", "USD">>
    /\ call.out.Metadata.exists
    /\ call.out.Metadata.MarkupAmount > call.req.QuoteValue * FeePercent

\* C27: only an order whose unit is "quote" gets metadata; a prepared base
\* order has none, sends no quote value, and sends its requested base
\* quantity as it is.
MetadataOnlyForQuoteOrders ==
    /\ (Prepared /\ call.req.Unit # "quote") => call.out.Metadata = NoMetadata
    /\ (Prepared /\ call.req.Unit = "base" /\ call.req.BaseQty > 0)
          => /\ call.out.PrimeRequest.BaseQuantity = StringOf(call.req.BaseQty)
             /\ call.out.PrimeRequest.QuoteValue = NotSet

\* C27 witness: a prepared base order whose request also carried a quote
\* value.
BaseOrderPreparedWitness ==
    /\ Prepared
    /\ call.req.Unit = "base"
    /\ call.req.BaseQty > 0
    /\ call.req.QuoteValue > 0
    /\ call.out.PrimeRequest.BaseQuantity.set

(***************************************************************************)
(* Properties of the price adjustment.                                     *)
(***************************************************************************)
\* C28: for a fee percent and a quantity above zero the adjusted ask is at
\* least the price and the adjusted bid at most the price; for a quantity of
\* zero both are the price.
AdjustedPricesBracketPrice ==
    (call.fn \in {"AdjustBidPrice", "AdjustAskPrice"} /\ call.done)
        => LET p == call.price * Pow10(DivisionPrecision - 3)
           IN /\ call.qty = 0 => call.out = p
              /\ (call.qty > 0 /\ call.feePercent > 0 /\ call.fn = "AdjustAskPrice")
                    => call.out >= p
              /\ (call.qty > 0 /\ call.feePercent > 0 /\ call.fn = "AdjustBidPrice")
                    => call.out <= p

\* C28 witness: an ask price was adjusted to above the price, for a
\* quantity above zero.
AskAdjustedWitness ==
    /\ call.fn = "AdjustAskPrice"
    /\ call.done
    /\ call.qty > 0
    /\ call.out > call.price * Pow10(DivisionPrecision - 3)

(***************************************************************************)
(* DbOrderHandler: order updates of the orders channel.                    *)
(***************************************************************************)
\* Order entries of one event of an order-update frame.
MaxOrders == 2

ClientOrderIdMissing == <<>>
ClientOrderIdLong == <<"c", "l", "i", "e", "n", "t", "-", "0", "1">>
ClientOrderIds == {ClientOrderIdMissing, ClientOrderIdLong}

OrderStatusFilled == "FILLED"
OrderStatusCancelled == "CANCELLED"
OrderStatusRejected == "REJECTED"
OrderStatusOpen == "OPEN"
Statuses == {OrderStatusOpen, OrderStatusFilled, OrderStatusCancelled}

\* What order placement stores in the MetadataStore for a quote order.
PlacedMetadata == [UserRequestedAmount |-> Amount(1000), MarkupAmount |-> Amount(10)]

\* orderData: the fields of one entry of event["orders"].  An order that is
\* FILLED has filled its quantity; an OPEN or CANCELLED one has filled nothing.
OrderEntries ==
    [order_id : OrderIds, client_order_id : ClientOrderIds, status : Statuses]
OrderSeqs == UNION {[1..n -> OrderEntries] : n \in 0..MaxOrders}
\* isArray: update["events"] is a non-empty JSON array (of one event).
OrderUpdates ==
    {[isArray |-> FALSE, orders |-> <<>>]} \cup [isArray : {TRUE}, orders : OrderSeqs]

\* s[:8]: defined for a string of at least 8 bytes.
Truncates(str) == Len(str) >= 8

\* A terminal test that knows the filled status only.
IsFilled(status) == status = OrderStatusFilled

IsTerminal(status) ==
    status \in {OrderStatusFilled, OrderStatusCancelled, OrderStatusRejected}

\* The states OrdersDb can be in when a call reaches it: "none" (every call
\* succeeds) or the call that fails.
DbFaults == {"none", "InsertOrderEvent", "GetOrder", "UpsertOrder"}

\* An UpsertOrder that stamps the row with the time of the write.
UpsertOrderStamped(orders, orderId, order) ==
    [orders EXCEPT ![orderId] = [order EXCEPT !.FirstSeenAt = order.LastUpdatedAt]]

\* An INSERT OR IGNORE: a conflicting row is left as it is.
UpsertOrderIgnore(orders, orderId, order) ==
    IF orders[orderId].exists THEN orders ELSE [orders EXCEPT ![orderId] = order]

\* An ON CONFLICT clause that sets the upfront amounts from excluded.
CoalesceExcluded(stored, excluded) == excluded

\* A column ON CONFLICT sets from the stored value unless that is "0":
\* COALESCE(NULLIF(orders.x, '0'), excluded.x).
CoalesceNullIfZero(stored, excluded) ==
    IF stored = DefaultZero THEN excluded ELSE stored

\* OrdersDb.UpsertOrder: INSERT ... ON CONFLICT(order_id) DO UPDATE SET.  The
\* SET list names neither first_seen_at nor client_order_id (nor product_id,
\* side and order_type), and takes the three upfront amounts from the row
\* unless the row holds "0".
UpsertOrder(orders, orderId, order) ==
    LET row == orders[orderId]
    IN IF ~row.exists THEN [orders EXCEPT ![orderId] = order]
       ELSE [orders EXCEPT ![orderId] =
                [order EXCEPT
                    !.ClientOrderId = row.ClientOrderId,
                    !.UserRequestedAmount =
                        CoalesceNullIfZero(row.UserRequestedAmount, @),
                    !.MarkupAmount = CoalesceNullIfZero(row.MarkupAmount, @),
                    !.PrimeOrderQuoteAmount =
                        CoalesceNullIfZero(row.PrimeOrderQuoteAmount, @),
                    !.FirstSeenAt = row.FirstSeenAt]]

\* processOrderUpdate on one entry: [err, panic, db].
processOrderUpdate(db, orderData, fault, timestamp) ==
    LET orderId == orderData.order_id
        status == orderData.status
        cumQty == IF status = OrderStatusFilled THEN Amount(1000) ELSE Amount(0)
        avgPx == IF cumQty.v = 0 THEN Amount(0) ELSE Amount(1000)
        Ret(err, panic, d) == [err |-> err, panic |-> panic, db |-> d]
    IN
    IF orderId = OrderIdMissing THEN Ret(TRUE, FALSE, db)
    ELSE IF fault = "InsertOrderEvent" THEN Ret(TRUE, FALSE, db)
    ELSE
    LET db1 == [db EXCEPT !.events = @ \cup {orderId}]
    IN
    IF fault = "GetOrder" THEN Ret(TRUE, FALSE, db1)
    ELSE
    LET existing == db1.orders[orderId]
        firstSeenAt == IF existing.exists THEN existing.FirstSeenAt ELSE timestamp
        hasMetadata == orderId \in db1.metadata
        userRequestedAmount ==
            IF hasMetadata THEN PlacedMetadata.UserRequestedAmount
            ELSE IF existing.exists THEN existing.UserRequestedAmount
            ELSE DefaultZero
        markupAmount ==
            IF hasMetadata THEN PlacedMetadata.MarkupAmount
            ELSE IF existing.exists THEN existing.MarkupAmount
            ELSE DefaultZero
        \* the map PlaceOrder stores has the key "PrimeOrderAmount", the
        \* handler reads "PrimeOrderQuoteAmount"
        primeOrderQuoteAmount ==
            IF hasMetadata THEN DefaultZero
            ELSE IF existing.exists THEN existing.PrimeOrderQuoteAmount
            ELSE DefaultZero
        isTerminal == IsTerminal(status)
        settlement ==
            IF isTerminal
            THEN calculateFeeSettlement(cumQty, avgPx, userRequestedAmount, markupAmount)
            ELSE [ActualFilledValue |-> DefaultZero, ActualEarnedFee |-> DefaultZero,
                  RebateAmount |-> DefaultZero]
        \* the settlement is logged with orderId[:8]
        settlementLogged ==
            isTerminal /\ settlement.RebateAmount # DefaultZero /\ markupAmount # DefaultZero
        orderRecord ==
            [exists |-> TRUE, ClientOrderId |-> orderData.client_order_id,
             Status |-> status, CumQty |-> cumQty,
             UserRequestedAmount |-> userRequestedAmount, MarkupAmount |-> markupAmount,
             PrimeOrderQuoteAmount |-> primeOrderQuoteAmount,
             ActualFilledValue |-> settlement.ActualFilledValue,
             ActualEarnedFee |-> settlement.ActualEarnedFee,
             RebateAmount |-> settlement.RebateAmount,
             FeeSettled |-> isTerminal,
             FirstSeenAt |-> firstSeenAt, LastUpdatedAt |-> timestamp]
        db2 == [db1 EXCEPT !.orders = UpsertOrder(@, orderId, orderRecord)]
        db3 == IF isTerminal THEN [db2 EXCEPT !.metadata = @ \ {orderId}] ELSE db2
        statusChanged == ~existing.exists \/ existing.Status # status
        isTerminalOrFilled == isTerminal \/ cumQty.v # 0
        isOpenTransition == status = OrderStatusOpen /\ statusChanged
    IN
    IF settlementLogged /\ ~Truncates(orderId) THEN Ret(FALSE, TRUE, db1)
    ELSE IF fault = "UpsertOrder" THEN Ret(TRUE, FALSE, db1)
    ELSE IF (isTerminalOrFilled \/ isOpenTransition)
            /\ (~Truncates(orderId) \/ ~Truncates(orderData.client_order_id))
    THEN Ret(FALSE, TRUE, db3)
    ELSE Ret(FALSE, FALSE, db3)

\* HandleOrderUpdate, the loop over the orders of an event: st is
\* [panic, db, processed, errors], processed counting the entries for which
\* processOrderUpdate returned.
\* The loop's state after processOrderUpdate returned o, or panicked.
AfterOrder(st, o) ==
    [panic |-> o.panic, db |-> o.db,
     processed |-> IF o.panic THEN st.processed ELSE st.processed + 1,
     errors |-> IF o.err THEN st.errors + 1 ELSE st.errors]

RECURSIVE ProcessOrders(_, _, _, _)
ProcessOrders(st, orders, fault, timestamp) ==
    IF orders = <<>> \/ st.panic THEN st
    ELSE ProcessOrders(AfterOrder(st, processOrderUpdate(st.db, Head(orders), fault, timestamp)),
                       Tail(orders), fault, timestamp)

\* HandleOrderUpdate; timestamp is update["timestamp"], or time.Now() when
\* that does not parse.
HandleOrderUpdate(db, update, fault, timestamp) ==
    LET st == [panic |-> FALSE, db |-> db, processed |-> 0, errors |-> 0]
    IN IF ~update.isArray THEN st ELSE ProcessOrders(st, update.orders, fault, timestamp)

\* Order placement: MetadataStore.Set for the new order.
SetMetadata(id) ==
    /\ ~crashed
    /\ lastUpdate.phase = "none"
    /\ id \notin orderDb.metadata
    /\ orderDb' = [orderDb EXCEPT !.metadata = @ \cup {id}]
    /\ UNCHANGED <<clientVars, crashed, books, lastEvent, settle, place, writers, uncapped, call, streamVars, lastUpdate>>

\* An order-update frame with the given timestamp reaches HandleOrderUpdate.
OrderUpdateAt(update, fault, timestamp) ==
    /\ ~crashed
    /\ lastUpdate.phase = "none"
    /\ LET o == HandleOrderUpdate(orderDb, update, fault, timestamp)
       IN /\ orderDb' = o.db
          /\ crashed' = o.panic
          /\ lastUpdate' = [phase |-> "handled",
                            terminalIds |->
                                {update.orders[i].order_id : i \in
                                    {j \in DOMAIN update.orders :
                                        /\ update.isArray
                                        /\ update.orders[j].status \in
                                              {"FILLED", "CANCELLED", "REJECTED"}}},
                            hadMetadata |-> orderDb.metadata,
                            entries |-> IF update.isArray THEN Len(update.orders) ELSE 0,
                            processed |-> o.processed,
                            errors |-> o.errors,
                            shortIds |-> \E i \in DOMAIN update.orders :
                                ~Truncates(update.orders[i].order_id)
                                \/ ~Truncates(update.orders[i].client_order_id)]
    /\ UNCHANGED <<clientVars, books, lastEvent, settle, place, writers, uncapped, call, streamVars>>

\* An order-update frame without a timestamp reaches HandleOrderUpdate.
OrderUpdate(update, fault) == OrderUpdateAt(update, fault, now)

\* HandleOrderUpdate has returned.
UpdateDone ==
    /\ ~crashed
    /\ lastUpdate.phase = "handled"
    /\ lastUpdate' = NoUpdate
    /\ UNCHANGED <<clientVars, crashed, books, lastEvent, settle, place, writers, uncapped, call, streamVars, orderDb>>

NextOrders ==
    \/ \E id \in OrderIds \ {OrderIdMissing} : SetMetadata(id)
    \/ \E update \in OrderUpdates : \E fault \in DbFaults : OrderUpdate(update, fault)
    \/ UpdateDone

SpecOrders == Init /\ [][NextOrders]_vars

\* Order-update frames of one entry with a timestamp.
Timestamps == 0..MaxTime
SingleOrderUpdates == [isArray : {TRUE}, orders : [1..1 -> OrderEntries]]

NextOrderLog ==
    \/ \E id \in OrderIds \ {OrderIdMissing} : SetMetadata(id)
    \/ \E update \in SingleOrderUpdates : \E fault \in DbFaults : \E t \in Timestamps :
          OrderUpdateAt(update, fault, t)
    \/ UpdateDone

SpecOrderLog == Init /\ [][NextOrderLog]_vars

(***************************************************************************)
(* Goroutines that apply events to the book of one product at the same     *)
(* time: handleUpdate takes book.Snapshot() under the book's lock, merges   *)
(* without it, and publishes with book.Update under the lock again.         *)
(***************************************************************************)
\* The snapshot event that creates the book, and update events that add a
\* level to one side or change the size of one.
BaseSnapshot ==
    Event("snapshot", <<Entry(SideBid, Dec(5), Dec(1)), Entry(SideAsk, Dec(10), Dec(1))>>)
DeltaEvents ==
    {Event("update", <<Entry(SideBid, Dec(4), Dec(1))>>),
     Event("update", <<Entry(SideAsk, Dec(11), Dec(1))>>),
     Event("update", <<Entry(SideBid, Dec(5), Dec(2))>>),
     Event("update", <<Entry(SideAsk, Dec(10), Dec(2))>>)}

\* handleL2Event on the snapshot event, before any update event.
ApplySnapshot(event) ==
    /\ ~crashed
    /\ writers.base.type = "none"
    /\ \E o \in handleL2Event(books, event) :
        /\ books' = o.books
        /\ crashed' = o.panic
    /\ writers' = [writers EXCEPT !.base = event]
    /\ UNCHANGED <<clientVars, lastEvent, settle, place, call, streamVars, orderVars, uncapped>>

\* handleUpdate, first statement: snapshot := book.Snapshot().
TakeSnapshot(l, event) ==
    /\ ~crashed
    /\ writers.base.type # "none"
    /\ writers.w[l].pc = "idle"
    /\ writers' = [writers EXCEPT !.w[l] = [pc |-> "merge", event |-> event,
                                            snapshot |-> books[event.product_id]]]
    /\ UNCHANGED <<clientVars, crashed, books, lastEvent, settle, place, call, streamVars,
                   orderVars, uncapped>>

\* handleUpdate, the rest: the merge into the snapshot and book.Update.
PublishUpdate(l) ==
    /\ ~crashed
    /\ writers.w[l].pc = "merge"
    /\ LET event == writers.w[l].event
       IN \E o \in handleUpdateFrom(writers.w[l].snapshot, books[event.product_id],
                                    parseUpdates(event)) :
            /\ books' = [books EXCEPT ![event.product_id] = o.book]
            /\ crashed' = o.panic
    /\ writers' = [writers EXCEPT !.w[l].pc = "done"]
    /\ UNCHANGED <<clientVars, lastEvent, settle, place, call, streamVars, orderVars, uncapped>>

NextWriters ==
    \/ ApplySnapshot(BaseSnapshot)
    \/ \E l \in Loops : \E event \in DeltaEvents : TakeSnapshot(l, event)
    \/ \E l \in Loops : PublishUpdate(l)

SpecWriters == Init /\ [][NextWriters]_vars

(***************************************************************************)
(* OrdersDb.UpsertOrder on the rows of one orders table.                   *)
(***************************************************************************)
\* The preliminary status storeOrderMetadata writes.
OrderStatusPending == "PENDING"

\* The upfront amounts of a record: none ("0" in each column), or those of
\* an order of 1.000 with a markup of 0.010.
NoAmounts ==
    [UserRequestedAmount |-> DefaultZero, MarkupAmount |-> DefaultZero,
     PrimeOrderQuoteAmount |-> DefaultZero]
HeldAmounts ==
    [UserRequestedAmount |-> Amount(1000), MarkupAmount |-> Amount(10),
     PrimeOrderQuoteAmount |-> Amount(990)]

\* An OrderRecord: a FILLED one carries its fill and its settlement.
OrderRecordOf(clientOrderId, status, amounts, timestamp) ==
    LET filled == status = OrderStatusFilled
    IN [exists |-> TRUE, ClientOrderId |-> clientOrderId, Status |-> status,
        CumQty |-> IF filled THEN Amount(1000) ELSE Amount(0),
        UserRequestedAmount |-> amounts.UserRequestedAmount,
        MarkupAmount |-> amounts.MarkupAmount,
        PrimeOrderQuoteAmount |-> amounts.PrimeOrderQuoteAmount,
        ActualFilledValue |-> IF filled THEN Amount(1000) ELSE DefaultZero,
        ActualEarnedFee |-> IF filled THEN amounts.MarkupAmount ELSE DefaultZero,
        RebateAmount |-> DefaultZero,
        FeeSettled |-> filled,
        FirstSeenAt |-> timestamp, LastUpdatedAt |-> timestamp]

OrderRecords ==
    {OrderRecordOf(c, st, a, t) :
        c \in ClientOrderIds, st \in {OrderStatusPending, OrderStatusOpen, OrderStatusFilled},
        a \in {NoAmounts, HeldAmounts}, t \in 0..MaxTime}

\* The columns of an order record.
UpfrontColumns == {"UserRequestedAmount", "MarkupAmount", "PrimeOrderQuoteAmount"}
ExecutionColumns ==
    {"Status", "CumQty", "ActualFilledValue", "ActualEarnedFee", "RebateAmount",
     "FeeSettled", "LastUpdatedAt"}
OrderColumns == {"ClientOrderId", "FirstSeenAt"} \cup UpfrontColumns \cup ExecutionColumns

\* db.UpsertOrder(order) on order OrderIdLong; call keeps the record given
\* and the row found.
Upsert(order) ==
    /\ ~crashed
    /\ orderDb' = [orderDb EXCEPT !.orders = UpsertOrder(@, OrderIdLong, order)]
    /\ call' = [fn |-> "UpsertOrder", order |-> order, row |-> orderDb.orders[OrderIdLong]]
    /\ UNCHANGED <<clientVars, crashed, books, lastEvent, settle, place, writers, uncapped, streamVars, lastUpdate>>

NextUpsert == \E order \in OrderRecords : Upsert(order)

SpecUpsert == Init /\ [][NextUpsert]_vars

(***************************************************************************)
(* The order command: executeOrder places the order with the venue and     *)
(* then stores its fee metadata in the orders database, which the process  *)
(* of the order stream writes as the venue's updates arrive.               *)
(***************************************************************************)
\* buildOrderRequest: the quantity of the command line is the base quantity
\* of a "base" order and the quote value of every other.
buildOrderRequest(symbol, side, orderType, unitType, quantity, limitPrice) ==
    [Product |-> symbol, Side |-> side, Type |-> orderType, Price |-> limitPrice,
     Unit |-> unitType,
     BaseQty |-> IF unitType = "base" THEN quantity ELSE 0,
     QuoteValue |-> IF unitType = "base" THEN 0 ELSE quantity]

\* ValidateOrderRequest returns nil.
ValidateOrderRequest(req) ==
    /\ req.Product # <<>>
    /\ req.Side \in {"BUY", "SELL", "buy", "sell"}
    /\ \/ req.Unit = "quote" /\ req.QuoteValue > 0
       \/ req.Unit = "base" /\ req.BaseQty > 0

\* The decimal string of an amount of x millionths that has three places.
Thousandths(x) == Amount(x \div 1000)

\* storeOrderMetadata: the markup it records, in millionths.
MarkupRecorded(req) == ComputeFromNotional(req.QuoteValue)

\* storeOrderMetadata: the preliminary record; the fill and settlement
\* columns are the empty strings of a new OrderRecord.
PreliminaryRecord(req, timestamp) ==
    [exists |-> TRUE, ClientOrderId |-> ClientOrderIdLong, Status |-> OrderStatusPending,
     CumQty |-> Unparsable,
     UserRequestedAmount |-> Thousandths(req.QuoteValue * 1000),
     MarkupAmount |-> Thousandths(MarkupRecorded(req)),
     PrimeOrderQuoteAmount |-> Thousandths(req.QuoteValue * 1000 - MarkupRecorded(req)),
     ActualFilledValue |-> Unparsable, ActualEarnedFee |-> Unparsable,
     RebateAmount |-> Unparsable, FeeSettled |-> FALSE,
     FirstSeenAt |-> timestamp, LastUpdatedAt |-> timestamp]

\* storeOrderMetadata
storeOrderMetadata(orders, orderId, req, timestamp) ==
    UpsertOrder(orders, orderId, PreliminaryRecord(req, timestamp))

\* Orders of the command line: quote orders of 2.500 and 10.000 and a base
\* order of 0.500, on a product quoted in USD and on one quoted in BTC.
PlacedRequests ==
    {buildOrderRequest(symbol, "buy", "market", unitType, quantity, 0) :
        symbol \in {<<"BTC", "USD">>, <<"ETH", "BTC">>},
        unitType \in {"quote", "base"}, quantity \in {500, 2500, 10000}}

\* executeOrder, orderService.PlaceOrder: the order is validated, prepared
\* and sent to the venue with CreateOrder, which returns its order id; the
\* service was made with no metadata store.
PlaceOrder(req) ==
    /\ ~crashed
    /\ place.pc = "idle"
    /\ ValidateOrderRequest(req)
    /\ place' = [pc |-> "sent", req |-> req, orderId |-> OrderIdLong,
                 sent |-> PrepareOrderRequest(req, TRUE).PrimeRequest.QuoteValue,
                 stored |-> FALSE, recorded |-> 0,
                 venueStatus |-> "none", settled |-> FALSE]
    /\ UNCHANGED <<clientVars, crashed, books, lastEvent, settle, call, streamVars, orderVars, writers, uncapped>>

\* executeOrder after PlaceOrder returned: storeOrderMetadata for a quote
\* order, whose error is logged and dropped.
StoreOrderMetadata(failed_, timestamp) ==
    /\ ~crashed
    /\ place.pc = "sent"
    /\ IF IsQuoteOrder(place.req) /\ ~failed_
       THEN /\ orderDb' = [orderDb EXCEPT
                              !.orders = storeOrderMetadata(@, place.orderId, place.req, timestamp)]
            /\ place' = [place EXCEPT !.pc = "done", !.stored = TRUE,
                                      !.recorded = MarkupRecorded(place.req)]
       ELSE /\ place' = [place EXCEPT !.pc = "done"]
            /\ UNCHANGED orderDb
    /\ UNCHANGED <<clientVars, crashed, books, lastEvent, settle, call, streamVars, lastUpdate, writers, uncapped>>

\* The update's effect on what is known of the order at the venue.
AfterVenueUpdate(pl, status, o) ==
    [pl EXCEPT !.venueStatus = status,
               !.settled = @ \/ (IsTerminal(status) /\ o.errors = 0 /\ ~o.panic)]

\* The venue reports a status of the order that was sent, and the order
\* stream's handler processes the update; after a terminal status the venue
\* reports that status only.
VenueUpdate(status, fault, timestamp) ==
    /\ ~crashed
    /\ place.pc \in {"sent", "done"}
    /\ IsTerminal(place.venueStatus) => status = place.venueStatus
    /\ LET entry == [order_id |-> place.orderId, client_order_id |-> ClientOrderIdLong,
                     status |-> status]
           o == HandleOrderUpdate(orderDb, [isArray |-> TRUE, orders |-> <<entry>>],
                                  fault, timestamp)
       IN /\ orderDb' = o.db
          /\ crashed' = o.panic
          /\ place' = AfterVenueUpdate(place, status, o)
    /\ UNCHANGED <<clientVars, books, lastEvent, settle, call, streamVars, lastUpdate, writers, uncapped>>

NextPlace ==
    \/ \E req \in PlacedRequests : PlaceOrder(req)
    \/ \E failed_ \in BOOLEAN : \E t \in Timestamps : StoreOrderMetadata(failed_, t)
    \/ \E status \in Statuses : \E fault \in DbFaults : \E t \in Timestamps :
          VenueUpdate(status, fault, t)

SpecPlace == Init /\ [][NextPlace]_vars

(***************************************************************************)
(* Properties of the order handler.                                        *)
(***************************************************************************)
\* C11: no order entry terminates the process: every entry of an
\* order-update frame, whatever its status and however short or absent its
\* order_id and client_order_id, is processed and returns.
OrderUpdateNeverFatal ==
    lastUpdate.phase = "handled"
        => ~crashed /\ lastUpdate.processed = lastUpdate.entries

\* The update just handled had an entry with a terminal status for order id.
TerminalEntryFor(id) == id \in lastUpdate.terminalIds

FirstSeenNeverOverwritten ==
    [][\A id \in OrderIds \ {OrderIdMissing} :
          IF orderDb.orders[id].exists
          THEN /\ orderDb'.orders[id].exists
               /\ orderDb'.orders[id].FirstSeenAt = orderDb.orders[id].FirstSeenAt
          ELSE orderDb'.orders[id].exists
                  => orderDb'.orders[id].FirstSeenAt = orderDb'.orders[id].LastUpdatedAt]_vars

\* C30 witness: an order record that was written again at another time than
\* its first-seen timestamp.
FirstSeenKeptWitness ==
    \E id \in OrderIds \ {OrderIdMissing} :
        /\ orderDb.orders[id].exists
        /\ orderDb.orders[id].FirstSeenAt # orderDb.orders[id].LastUpdatedAt


\* The row of the order UpsertOrder has just written.
UpsertedRow == orderDb.orders[OrderIdLong]

\* UpsertOrder has just written over a row that existed.
UpsertOnConflict == call.fn = "UpsertOrder" /\ call.row.exists

\* C31 as stated: after an upsert over an existing row every column but
\* first_seen_at holds the incoming value.
AllButFirstSeenOverwritten ==
    UpsertOnConflict
        => \A c \in OrderColumns \ {"FirstSeenAt"} : UpsertedRow[c] = call.order[c]

\* C31: an upsert over an existing row overwrites with the incoming values
\* the status, the fill and settlement columns and the last-updated
\* timestamp, and an upfront amount whose stored value is "0"; it keeps the
\* first-seen timestamp, the client order id and every upfront amount whose
\* stored value is not "0".
ExecutionColumnsOverwritten ==
    UpsertOnConflict
        => /\ \A c \in ExecutionColumns : UpsertedRow[c] = call.order[c]
           /\ \A c \in UpfrontColumns :
                 UpsertedRow[c] = IF call.row[c] = DefaultZero THEN call.order[c]
                                  ELSE call.row[c]
           /\ UpsertedRow.FirstSeenAt = call.row.FirstSeenAt
           /\ UpsertedRow.ClientOrderId = call.row.ClientOrderId

\* C31 witness: an upsert over an existing row whose incoming status, fill,
\* upfront amounts and client order id all differ from the stored ones.
UpsertOverwroteWitness ==
    /\ UpsertOnConflict
    /\ call.order.Status # call.row.Status
    /\ call.order.CumQty # call.row.CumQty
    /\ call.order.MarkupAmount # call.row.MarkupAmount
    /\ call.row.MarkupAmount # DefaultZero
    /\ call.order.ClientOrderId # call.row.ClientOrderId
    /\ call.order.LastUpdatedAt # call.row.LastUpdatedAt

\* C32: an upsert that carries "0" in the three upfront amounts over a row
\* that holds them non-zero leaves the three stored values as they were and
\* sets the status and the fill columns to the incoming ones.
ZeroMetadataKeepsStored ==
    (/\ UpsertOnConflict
     /\ \A c \in UpfrontColumns : call.row[c] # DefaultZero /\ call.order[c] = DefaultZero)
        => /\ \A c \in UpfrontColumns : UpsertedRow[c] = call.row[c]
           /\ UpsertedRow.Status = call.order.Status
           /\ UpsertedRow.CumQty = call.order.CumQty
           /\ UpsertedRow.ActualFilledValue = call.order.ActualFilledValue

\* C32 witness: a FILLED record with "0" upfront amounts was upserted over a
\* PENDING row that holds the amounts of the order.
MetadataPreservedWitness ==
    /\ UpsertOnConflict
    /\ call.row.Status = OrderStatusPending
    /\ call.row.MarkupAmount = Amount(10)
    /\ call.order.Status = OrderStatusFilled
    /\ call.order.MarkupAmount = DefaultZero
    /\ UpsertedRow.Status = OrderStatusFilled
    /\ UpsertedRow.MarkupAmount = Amount(10)


\* The order command's order is a quote order that has been sent to the venue.
QuoteOrderSent == place.pc \in {"sent", "done"} /\ IsQuoteOrder(place.req)

\* The row of the order command's order.
PlacedRow == orderDb.orders[OrderIdLong]

\* C33: whenever a quote order of the order command has been sent to the
\* venue, its fee metadata is in the database.
MetadataStoredBeforeSent ==
    QuoteOrderSent
        => /\ PlacedRow.exists
           /\ PlacedRow.MarkupAmount # DefaultZero
           /\ PlacedRow.UserRequestedAmount # DefaultZero

\* C34: once the fee metadata of a quote order is stored and a terminal
\* update of the order has been processed, in whichever order the two
\* happened, the record is fee-settled and its earned fee and rebate add up
\* to the markup held, within a hundredth.
TerminalOrderSettledAgainstHold ==
    (QuoteOrderSent /\ place.stored /\ place.settled)
        => /\ PlacedRow.FeeSettled
           /\ Abs(PlacedRow.ActualEarnedFee.v + PlacedRow.RebateAmount.v
                      - PlacedRow.MarkupAmount.v) <= 10

\* C35: no step takes a record that has a terminal status and fee_settled
\* set to a record with another status or with fee_settled cleared, or
\* changes its earned fee or its rebate.
SettledRecordStaysSettled ==
    [][(/\ PlacedRow.exists
        /\ IsTerminal(PlacedRow.Status)
        /\ PlacedRow.FeeSettled)
          => /\ PlacedRow'.Status = PlacedRow.Status
             /\ PlacedRow'.FeeSettled
             /\ PlacedRow'.ActualEarnedFee = PlacedRow.ActualEarnedFee
             /\ PlacedRow'.RebateAmount = PlacedRow.RebateAmount]_vars

\* C40: the markup storeOrderMetadata records for a quote order and the
\* amount sent to the venue add up to the amount requested (in millionths).
RecordedMarkupIsWithheld ==
    (QuoteOrderSent /\ place.stored)
        => place.recorded + place.sent.v = place.req.QuoteValue * 1000


\* C36: from a state in which Stop() has returned, no step sends a
\* subscription request on any connection.
NoSubscribeAfterStop ==
    [][stopPc = "returned" => subs' = subs]_vars


\* C37: at most one connection of the client is open, and when run() is
\* about to dial, every connection dialled before has been closed.
PreviousConnectionClosed ==
    /\ Cardinality({c \in Conns : connState[c] = "open"}) <= 1
    /\ \A l \in Loops :
          pc[l] = "dial" => \A c \in Conns : connState[c] \in {"none", "closed"}


\* The sequences that hold each element of S once.
RECURSIVE Orderings(_)
Orderings(S) ==
    IF S = {} THEN {<<>>}
    ELSE UNION {{<<x>> \o rest : rest \in Orderings(S \ {x})} : x \in S}

\* The goroutines whose update event has been published.
Published == {l \in Loops : writers.w[l].pc = "done"}

\* The stores that applying the snapshot event and then the published
\* update events one after the other, in some order, can give.
SerialBooks ==
    UNION {{o.books :
              o \in HandleEvents([err |-> FALSE, panic |-> FALSE,
                                  books |-> [p \in Products |-> NoBook]],
                                 <<writers.base>> \o [i \in DOMAIN order |->
                                                        writers.w[order[i]].event])} :
           order \in Orderings(Published)}

\* C38: while no goroutine is between the snapshot and the publish of an
\* update, the published book is one that the update events applied so far
\* give when applied one after the other in some order.
UpdatesSerializable ==
    (/\ writers.base.type # "none"
     /\ \A l \in Loops : writers.w[l].pc # "merge")
        => books \in SerialBooks

\* The first MaxLevels levels of a side sorted best first.
BestLevels(levels) ==
    IF Len(levels) > MaxLevels THEN SubSeq(levels, 1, MaxLevels) ELSE levels

\* The sides of the book with no depth cap, best first.
UncappedBids == CHOOSE b \in sortBids(uncapped.bid, DOMAIN uncapped.bid) : TRUE
UncappedAsks == CHOOSE a \in sortAsks(uncapped.ask, DOMAIN uncapped.ask) : TRUE

\* C39: after every sequence of snapshot and delta events, each side of the
\* published book is the best MaxLevels levels of the book that the same
\* events give with no depth cap.
PublishedIsBestOfUncapped ==
    (~crashed /\ books["BTC-USD"].exists) =>
        /\ books["BTC-USD"].Bids = BestLevels(UncappedBids)
        /\ books["BTC-USD"].Asks = BestLevels(UncappedAsks)

====
